---------------------------- MODULE Spec2Model ----------------------------
(***************************************************************************)
(* A state-machine model of the C ABI boundary of iroh-swift               *)
(* (rust/src/ffi.rs over rust/src/node.rs): opaque node, document and      *)
(* subscription handles, the callback protocol of every exported           *)
(* operation, the buffers and strings handed across the boundary, and the  *)
(* subscription task with its one-shot cancellation channel.               *)
(*                                                                         *)
(* The blob store, the docs engine and the network are external services:  *)
(* their results are inputs of the actions (res = "ok" / "err"), their     *)
(* state is the part of a node record the boundary can observe.            *)
(***************************************************************************)
EXTENDS Integers, Sequences, FiniteSets, TLC

\* ------------------------------------------------------------------ bounds
MaxNodes == 1
MaxDocs == 2
MaxSubs == 1
MaxAllocs == 6
MaxEvents == 2
MaxClock == 3
MaxStale == 1
MaxOutstanding == 0
\* the writes to documents that the caller of every operation makes
MaxWrites == 1
\* the documents that the callers other than the handle-keeping one open
MaxDocsMade == 1

\* ------------------------------------------------------- program constants
\* IrohAuthorSecret / IrohAuthorId: [u8; 32]
AuthorKeyLen == 32

NULL == 0

NodeHandles == 1..MaxNodes
DocHandles == 1..MaxDocs
SubHandles == 1..MaxSubs
\* The most allocations one IrohDocEvent carries (InsertRemote: the boxed
\* entry, its key, its content hash, the peer id)
MaxEventOwned == 4
\* MaxAllocs bounds what the caller holds unfreed when it makes a call; the
\* subscription tasks allocate beyond it, at most this much.
HeapSize == MaxAllocs + MaxSubs * (MaxEventOwned * MaxEvents + 1)
Ptrs == 1..HeapSize

\* ------------------------------------------------------------------- state
VARIABLES
    nodes,   \* Box<IrohNode> per node handle: status and the services' state
    docs,    \* Box<DocWrapper> per document handle
    subs,    \* Box<SubscriptionWrapper>, its channel and its spawned task
    heap,    \* allocations handed to the caller: pointer -> kind
    clock,   \* the docs engine's timestamp source
    last,    \* the exported call that ran last
    cbs      \* the callbacks that call invoked, in order

vars == <<nodes, docs, subs, heap, clock, last, cbs>>

\* ---------------------------------------------------- strings and buffers
\* A C string argument: a null pointer, bytes that are not UTF-8, or a text.
\* A text is a sequence of tokens; hex strings are sequences of hex digits.
NullStr == [null |-> TRUE, utf8 |-> FALSE, text |-> <<>>]
BadUtf8 == [null |-> FALSE, utf8 |-> FALSE, text |-> <<>>]
Str(t) == [null |-> FALSE, utf8 |-> TRUE, text |-> t]

HexDigits == {"0", "1", "2", "3", "4", "5", "6", "7", "8", "9",
              "a", "b", "c", "d", "e", "f"}

\* hex::encode: two digits per byte; a byte is its pair of hex digits
HexEncode(bs) ==
    [i \in 1..(2 * Len(bs)) |-> bs[(i + 1) \div 2][IF i % 2 = 1 THEN 1 ELSE 2]]

\* hex::decode: Err on an odd length or a non-hex digit
HexDecode(t) ==
    IF Len(t) % 2 = 1 \/ \E i \in 1..Len(t) : t[i] \notin HexDigits
    THEN [ok |-> FALSE, bytes |-> <<>>]
    ELSE [ok |-> TRUE,
          bytes |-> [i \in 1..(Len(t) \div 2) |-> <<t[2 * i - 1], t[2 * i]>>]]

\* IrohBytes { data, len }: a borrowed view of caller memory `mem`
Borrowed(data, len, mem) == [data |-> data, len |-> len, mem |-> mem]

\* The copy with only the length tested: from_raw_parts on a null pointer reads
\* whatever is there
CopyBytes_LenOnly(b) ==
    IF b.len = 0 THEN <<>>
    ELSE IF b.data = "null" THEN [i \in 1..b.len |-> <<"f", "f">>]
    ELSE SubSeq(b.mem, 1, b.len)

\* `if bytes.data.is_null() || bytes.len == 0 { Vec::new() } else { ..to_vec() }`
CopyBytes(b) ==
    IF b.data = "null" \/ b.len = 0 THEN <<>> ELSE SubSeq(b.mem, 1, b.len)

\* ------------------------------------------------- hashes, tickets, authors
\* The content hash: an injective digest of the bytes (a tag byte, then the
\* content), so that a hash names exactly one content.
DigestTag == <<"b", "3">>
Digest(bytes) == <<DigestTag>> \o bytes
Preimage(hash) == Tail(hash)

\* Hash::to_string
HashToString(hash) == HexEncode(hash)

\* str::parse::<Hash>
ParseHash(t) ==
    LET d == HexDecode(t) IN
    IF d.ok /\ Len(d.bytes) >= 1 /\ d.bytes[1] = DigestTag
    THEN [ok |-> TRUE, hash |-> d.bytes]
    ELSE [ok |-> FALSE, hash |-> <<>>]

NodeIdToks == <<"n1", "n2", "n3">>
PeerId == "peer"
NodeIdOf(h) == NodeIdToks[h]
EndpointIds == {NodeIdToks[i] : i \in 1..Len(NodeIdToks)} \cup {PeerId}

BlobFormats == {"Raw", "HashSeq"}

\* BlobTicket::new(addr, hash, format).to_string()
TicketToString(node_id, hash, format) ==
    <<"blob", node_id, format>> \o HexEncode(hash)

\* str::parse::<BlobTicket>
ParseBlobTicket(t) ==
    IF /\ Len(t) >= 3
       /\ t[1] = "blob"
       /\ t[2] \in EndpointIds
       /\ t[3] \in BlobFormats
       /\ ParseHash(SubSeq(t, 4, Len(t))).ok
    THEN [ok |-> TRUE, node_id |-> t[2], format |-> t[3],
          hash |-> ParseHash(SubSeq(t, 4, Len(t))).hash]
    ELSE [ok |-> FALSE, node_id |-> "", format |-> "", hash |-> <<>>]

NamespaceToks == <<"ns1", "ns2", "ns3">>
RemoteNamespace == "nsR"
Namespaces == {NamespaceToks[i] : i \in 1..Len(NamespaceToks)} \cup {RemoteNamespace}
ShareModes == {"Read", "Write"}

\* DocTicket to_string / str::parse::<DocTicket>
DocTicketToString(ns, mode, node_id) == <<"doc", ns, mode, node_id>>

ParseDocTicket(t) ==
    IF /\ Len(t) = 4
       /\ t[1] = "doc"
       /\ t[2] \in Namespaces
       /\ t[3] \in ShareModes
       /\ t[4] \in EndpointIds
    THEN [ok |-> TRUE, ns |-> t[2], mode |-> t[3]]
    ELSE [ok |-> FALSE, ns |-> "", mode |-> ""]

\* str::parse::<RelayUrl>
ParseRelayUrl(t) == Len(t) = 2 /\ t[1] = "https://"

\* Author::from_bytes(secret).id(): the public key of the secret, here the
\* secret with the digits of every byte swapped (injective, not the identity)
AuthorIdOf(secret) == [i \in 1..Len(secret) |-> <<secret[i][2], secret[i][1]>>]


\* --------------------------------------------------------------- the heap
\* Box::into_raw / CString::into_raw / mem::forget(vec): the allocation leaves
\* Rust's ownership and lives until the caller hands it to its free operation.
\* An allocation is [kind, owner]: owner is the boxed entry a key buffer or a
\* hash string belongs to, NULL for an allocation that stands alone.
FreeCell == [kind |-> "free", owner |-> NULL]
FreePtrs(hp) == {p \in Ptrs : hp[p].kind = "free"}
FirstFree(hp) == CHOOSE p \in FreePtrs(hp) : \A q \in FreePtrs(hp) : p <= q

\* Allocate `kinds` in order; a kind written "+k" is a field of the boxed
\* entry allocated before it.
RECURSIVE AllocAll(_, _, _)
AllocAll(hp, kinds, box) ==
    IF kinds = <<>> THEN [heap |-> hp, ptrs |-> <<>>]
    ELSE LET p == FirstFree(hp)
             k == Head(kinds)
             cell == IF k = "+bytes" THEN [kind |-> "bytes", owner |-> box]
                     ELSE IF k = "+cstring" THEN [kind |-> "cstring", owner |-> box]
                     ELSE [kind |-> k, owner |-> NULL]
             r == AllocAll([hp EXCEPT ![p] = cell], Tail(kinds),
                           IF k = "entry" THEN p ELSE box)
         IN [heap |-> r.heap, ptrs |-> <<p>> \o r.ptrs]

\* One callback invocation: the function pointer called, what it is given,
\* and the allocations whose ownership passes to the caller with it.
Cb(fn, arg, owned) == [fn |-> fn, arg |-> arg, owned |-> owned]

RECURSIVE OwnedBy(_)
OwnedBy(calls) ==
    IF calls = <<>> THEN <<>> ELSE Head(calls).owned \o OwnedBy(Tail(calls))

\* The callbacks as the caller sees them: each with the pointers it now owns.
RECURSIVE WithPtrs(_, _)
WithPtrs(calls, ptrs) ==
    IF calls = <<>> THEN <<>>
    ELSE LET c == Head(calls)
             n == Len(c.owned)
         IN <<[fn |-> c.fn, arg |-> c.arg, ptrs |-> SubSeq(ptrs, 1, n)]>>
            \o WithPtrs(Tail(calls), SubSeq(ptrs, n + 1, Len(ptrs)))

\* ------------------------------------------------------ results of a call
\* What an exported function did: the callbacks it invoked, the state it left,
\* whether it reached a native service (store, downloader, docs engine,
\* node construction or shutdown), and how many of its callbacks, counted
\* from the first, it invoked from inside the future that the node runtime's
\* block_on was driving (`inrt`; the others follow block_on's return).
Same == [cbs |-> <<>>, ret |-> NULL, nodes |-> nodes, docs |-> docs, subs |-> subs,
         heap |-> heap, clock |-> clock, native |-> FALSE, inrt |-> 0]

\* `let error = CString::new(msg).unwrap(); (callback.on_failure)(userdata, error.into_raw())`
Failure(msg) == [Same EXCEPT !.cbs = <<Cb("on_failure", msg, <<"cstring">>)>>]

\* the same after a native service was called and returned Err
NativeFailure(msg) == [Failure(msg) EXCEPT !.native = TRUE]

\* The operations that release what an earlier call handed out
ReleaseOps == {"iroh_node_destroy", "iroh_node_close", "iroh_doc_close",
               "iroh_subscription_cancel", "iroh_string_free", "iroh_bytes_free",
               "iroh_doc_entry_free", "iroh_doc_event_free"}

\* No call is in progress on the calling thread
Idle == [op |-> "none", handle |-> NULL, strs |-> <<>>, native |-> FALSE, ret |-> NULL]

\* The exported function `op` ran to its return on the calling thread. The
\* caller makes one call at a time, and releases what it was handed before it
\* asks for more (up to MaxOutstanding allocations are kept).
Call(op, handle, strs, out) ==
    /\ last = Idle
    /\ op \in ReleaseOps \/ Cardinality(Ptrs \ FreePtrs(heap)) <= MaxOutstanding
    /\ \/ OwnedBy(out.cbs) = <<>>
       \/ Len(OwnedBy(out.cbs)) + Cardinality(Ptrs \ FreePtrs(out.heap)) <= MaxAllocs
    /\ LET a == AllocAll(out.heap, OwnedBy(out.cbs), NULL) IN
        /\ heap' = a.heap
        /\ cbs' = WithPtrs(out.cbs, a.ptrs)
    /\ nodes' = out.nodes
    /\ docs' = out.docs
    /\ subs' = out.subs
    /\ clock' = out.clock
    /\ last' = [op |-> op, handle |-> handle, strs |-> strs, native |-> out.native,
                ret |-> out.ret]

\* ----------------------------------------------------------------- nodes
\* gossip, docs: whether the Option<Gossip>, the Option<Docs> is Some
NoNode == [status |-> "none", docs_enabled |-> FALSE, gossip |-> FALSE,
           docs |-> FALSE, relay |-> "none",
           blobs |-> {}, tags |-> {}, authors |-> {}, replicas |-> {},
           entries |-> {}]

LiveNodes == {h \in NodeHandles : nodes[h].status = "live"}
FreshNode == CHOOSE h \in NodeHandles :
                 /\ nodes[h].status = "none"
                 /\ \A g \in NodeHandles : nodes[g].status = "none" => h <= g

\* IrohNode::new parsing the custom relay URL before it looks at relay_enabled
IrohNode_new_ParsesAlways(relay_enabled, custom_relay_url, docs_enabled, res) ==
    IF res = "err" THEN [ok |-> FALSE, err |-> "Failed to load blob store"]
    ELSE IF custom_relay_url.some /\ ~ParseRelayUrl(custom_relay_url.text)
    THEN [ok |-> FALSE, err |-> "Invalid relay URL"]
    ELSE [ok |-> TRUE,
          node |-> [NoNode EXCEPT
                      !.status = "live",
                      !.docs_enabled = docs_enabled,
                      !.gossip = docs_enabled,
                      !.docs = docs_enabled,
                      !.relay = IF ~relay_enabled THEN "disabled"
                                ELSE IF custom_relay_url.some THEN "custom"
                                ELSE "default"]]

\* IrohNode::new with the docs protocol spawned whatever docs_enabled says
IrohNode_new_DocsAlways(relay_enabled, custom_relay_url, docs_enabled, res) ==
    IF res = "err" THEN [ok |-> FALSE, err |-> "Failed to load blob store"]
    ELSE IF relay_enabled /\ custom_relay_url.some
                          /\ ~ParseRelayUrl(custom_relay_url.text)
    THEN [ok |-> FALSE, err |-> "Invalid relay URL"]
    ELSE [ok |-> TRUE,
          node |-> [NoNode EXCEPT
                      !.status = "live",
                      !.docs_enabled = docs_enabled,
                      !.gossip = TRUE,
                      !.docs = TRUE,
                      !.relay = IF ~relay_enabled THEN "disabled"
                                ELSE IF custom_relay_url.some THEN "custom"
                                ELSE "default"]]

\* IrohNode::new (node.rs): Err when a service fails to start (res = "err") or
\* when relays are enabled and the custom relay URL does not parse. Gossip and
\* docs are spawned, both or neither, as docs_enabled says.
IrohNode_new(relay_enabled, custom_relay_url, docs_enabled, res) ==
    IF res = "err" THEN [ok |-> FALSE, err |-> "Failed to load blob store"]
    ELSE IF relay_enabled /\ custom_relay_url.some
                          /\ ~ParseRelayUrl(custom_relay_url.text)
    THEN [ok |-> FALSE, err |-> "Invalid relay URL"]
    ELSE [ok |-> TRUE,
          node |-> [NoNode EXCEPT
                      !.status = "live",
                      !.docs_enabled = docs_enabled,
                      !.gossip = docs_enabled,
                      !.docs = docs_enabled,
                      !.relay = IF ~relay_enabled THEN "disabled"
                                ELSE IF custom_relay_url.some THEN "custom"
                                ELSE "default"]]

\* IrohNode::is_docs_enabled / IrohNode::docs / the gossip field
is_docs_enabled(h) == nodes[h].docs_enabled
docs_is_some(h) == nodes[h].docs
gossip_is_some(h) == nodes[h].gossip

\* The body of iroh_node_create
iroh_node_create_body(config, res) ==
    IF config.storage_path.null THEN Failure("storage_path cannot be null")
    ELSE IF ~config.storage_path.utf8 THEN Failure("Invalid storage path")
    ELSE IF ~config.custom_relay_url.null /\ ~config.custom_relay_url.utf8
    THEN Failure("Invalid custom relay URL")
    ELSE LET url == IF config.custom_relay_url.null
                    THEN [some |-> FALSE, text |-> <<>>]
                    ELSE [some |-> TRUE, text |-> config.custom_relay_url.text]
             r == IrohNode_new(config.relay_enabled, url, config.docs_enabled, res)
         IN IF r.ok
            THEN [Same EXCEPT
                    !.cbs = <<Cb("on_success", FreshNode, <<>>)>>,
                    !.nodes = [nodes EXCEPT ![FreshNode] = r.node],
                    !.native = TRUE]
            ELSE NativeFailure(r.err)

\* iroh_node_create(config, callback)
iroh_node_create(config, res) ==
    Call("iroh_node_create", NULL, <<config.storage_path>>,
         iroh_node_create_body(config, res))

\* A shutdown that cancels the subscriptions of the node before it drops
\* the runtime
shutdown_Cancels(h, res) ==
    [ok |-> res = "ok",
     nodes |-> [nodes EXCEPT ![h] = [NoNode EXCEPT !.status = "freed"]],
     subs |-> [s \in SubHandles |->
                 IF subs[s].node = h /\ subs[s].pc \in {"subscribing", "looping"}
                 THEN [subs[s] EXCEPT !.chan = "sent", !.signals = @ + 1]
                 ELSE subs[s]]]

\* IrohNode::shutdown(self): the router is shut down, then the node (and its
\* runtime) is dropped, whatever the router answered.
\* Dropping the runtime drops every task spawned on it at its next await:
\* a subscription task that has not finished never runs again.
shutdown(h, res) ==
    [ok |-> res = "ok",
     nodes |-> [nodes EXCEPT ![h] = [NoNode EXCEPT !.status = "freed"]],
     subs |-> [s \in SubHandles |->
                 IF subs[s].node = h /\ subs[s].pc \in {"subscribing", "looping"}
                 THEN [subs[s] EXCEPT !.pc = "dropped", !.stream = <<>>]
                 ELSE subs[s]]]

\* iroh_node_destroy(handle)
iroh_node_destroy(handle, res) ==
    Call("iroh_node_destroy", handle, <<>>,
        IF handle = NULL THEN Same
        ELSE LET r == shutdown(handle, res) IN
             [Same EXCEPT !.nodes = r.nodes, !.subs = r.subs, !.native = TRUE])

\* iroh_node_close with the node kept when the shutdown fails
iroh_node_close_KeptOnError(handle, res) ==
    Call("iroh_node_close", handle, <<>>,
        IF handle = NULL THEN [Same EXCEPT !.cbs = <<Cb("on_complete", "", <<>>)>>]
        ELSE LET r == shutdown(handle, res) IN
             IF r.ok
             THEN [Same EXCEPT !.cbs = <<Cb("on_complete", "", <<>>)>>,
                               !.nodes = r.nodes, !.subs = r.subs, !.native = TRUE]
             ELSE NativeFailure("Failed to shutdown router"))

\* iroh_node_close(handle, callback)
iroh_node_close(handle, res) ==
    Call("iroh_node_close", handle, <<>>,
        IF handle = NULL THEN [Same EXCEPT !.cbs = <<Cb("on_complete", "", <<>>)>>]
        ELSE LET r == shutdown(handle, res) IN
             IF r.ok
             THEN [Same EXCEPT !.cbs = <<Cb("on_complete", "", <<>>)>>,
                               !.nodes = r.nodes, !.subs = r.subs, !.native = TRUE]
             ELSE [NativeFailure("Failed to shutdown router") EXCEPT
                     !.nodes = r.nodes, !.subs = r.subs])

\* ------------------------------------------------------------------ blobs
\* A faulty put: the ticket is made from the hash of the data, which never
\* reaches the store
put_NotStored(h, data, res) ==
    IF res = "err" THEN [ok |-> FALSE, err |-> "Failed to add bytes to store", nodes |-> nodes]
    ELSE [ok |-> TRUE,
          ticket |-> TicketToString(NodeIdOf(h), Digest(data), "Raw"),
          nodes |-> nodes]

\* A faulty put: the ticket carries the address of another endpoint
put_NamesPeer(h, data, res) ==
    IF res = "err" THEN [ok |-> FALSE, err |-> "Failed to add bytes to store", nodes |-> nodes]
    ELSE [ok |-> TRUE,
          ticket |-> TicketToString(PeerId, Digest(data), "Raw"),
          nodes |-> [nodes EXCEPT ![h].blobs = @ \cup {data}]]

\* IrohNode::put: store.add_slice(data), then a ticket naming this endpoint
put(h, data, res) ==
    IF res = "err" THEN [ok |-> FALSE, err |-> "Failed to add bytes to store", nodes |-> nodes]
    ELSE [ok |-> TRUE,
          ticket |-> TicketToString(NodeIdOf(h), Digest(data), "Raw"),
          nodes |-> [nodes EXCEPT ![h].blobs = @ \cup {data}]]

\* IrohNode::get: parse the ticket, download the blob unless it is local,
\* read it from the store. The download fails when the provider does not
\* answer (res = "err"), and when the ticket names this node as the provider
\* of a blob this node does not have.
get(h, ticket_str, res) ==
    LET t == ParseBlobTicket(ticket_str)
        local == Preimage(t.hash) \in nodes[h].blobs
    IN
    IF ~t.ok THEN [ok |-> FALSE, err |-> "Failed to parse ticket", nodes |-> nodes,
                   native |-> FALSE]
    ELSE IF res = "err" \/ (~local /\ t.node_id = NodeIdOf(h))
    THEN [ok |-> FALSE, err |-> "Failed to download blob",
          nodes |-> nodes, native |-> TRUE]
    ELSE [ok |-> TRUE, bytes |-> Preimage(t.hash),
          nodes |-> [nodes EXCEPT ![h].blobs = @ \cup {Preimage(t.hash)}],
          native |-> TRUE]

\* iroh_put with the store call spawned on the runtime instead of block_on: the
\* function returns before any callback
iroh_put_Spawned(handle, bytes, res) ==
    Call("iroh_put", handle, <<>>,
        IF handle = NULL THEN Failure("handle cannot be null")
        ELSE [Same EXCEPT !.nodes = put(handle, CopyBytes(bytes), res).nodes,
                          !.native = TRUE])

\* iroh_put handing the store the caller's slice instead of a copy: what the
\* store then holds is the caller's pointer, not bytes
iroh_put_body_KeepsPointer(handle, bytes, res) ==
    IF handle = NULL THEN Failure("handle cannot be null")
    ELSE LET data == IF bytes.data = "null" \/ bytes.len = 0 THEN <<>>
                     ELSE <<<<"&", bytes.data>>>>
             r == put(handle, data, res)
         IN IF r.ok
            THEN [Same EXCEPT !.cbs = <<Cb("on_success", r.ticket, <<"cstring">>)>>,
                              !.nodes = r.nodes, !.native = TRUE]
            ELSE NativeFailure(r.err)

\* The body of iroh_put: the callback it invokes and the state it leaves
iroh_put_body(handle, bytes, res) ==
    IF handle = NULL THEN Failure("handle cannot be null")
    ELSE LET data == CopyBytes(bytes)
             r == put(handle, data, res)
         IN IF r.ok
            THEN [Same EXCEPT !.cbs = <<Cb("on_success", r.ticket, <<"cstring">>)>>,
                              !.nodes = r.nodes, !.native = TRUE]
            ELSE NativeFailure(r.err)

\* iroh_put(handle, bytes, callback)
iroh_put(handle, bytes, res) ==
    Call("iroh_put", handle, <<>>, iroh_put_body(handle, bytes, res))

\* A faulty iroh_get: the `return` after the null-ticket report is missing, so
\* the conversion of the ticket reports a second failure.
iroh_get_NoReturn(handle, ticket, res) ==
    Call("iroh_get", handle, <<ticket>>,
        IF handle = NULL THEN Failure("handle cannot be null")
        ELSE IF ticket.null
        THEN [Same EXCEPT !.cbs = <<Cb("on_failure", "ticket cannot be null", <<"cstring">>),
                                    Cb("on_failure", "Invalid ticket string", <<"cstring">>)>>]
        ELSE IF ~ticket.utf8 THEN Failure("Invalid ticket string")
        ELSE LET r == get(handle, ticket.text, res) IN
             IF r.ok
             THEN [Same EXCEPT !.cbs = <<Cb("on_success", r.bytes, <<"bytes">>)>>,
                               !.nodes = r.nodes, !.native = TRUE]
             ELSE [Failure(r.err) EXCEPT !.native = r.native])

\* The body of iroh_get
iroh_get_body(handle, ticket, res) ==
    IF handle = NULL THEN Failure("handle cannot be null")
    ELSE IF ticket.null THEN Failure("ticket cannot be null")
    ELSE IF ~ticket.utf8 THEN Failure("Invalid ticket string")
    ELSE LET r == get(handle, ticket.text, res) IN
         IF r.ok
         THEN [Same EXCEPT !.cbs = <<Cb("on_success", r.bytes, <<"bytes">>)>>,
                           !.nodes = r.nodes, !.native = TRUE]
         ELSE [Failure(r.err) EXCEPT !.native = r.native]

\* iroh_get(handle, ticket, callback)
iroh_get(handle, ticket, res) ==
    Call("iroh_get", handle, <<ticket>>, iroh_get_body(handle, ticket, res))

\* The items a download stream yields (DownloadProgressItem): a progress report
\* with a byte count, the end of a part, the two error items, and the items
\* the loop ignores
ProgressItem(n) == [kind |-> "Progress", bytes |-> n]
PartComplete == [kind |-> "PartComplete", bytes |-> 0]
ErrorItem == [kind |-> "Error", bytes |-> 0]
DownloadErrorItem == [kind |-> "DownloadError", bytes |-> 0]
TryProvider == [kind |-> "TryProvider", bytes |-> 0]

\* The progress closure reporting the two numbers the wrong way round
progress_fn_Swapped(downloaded, total) ==
    Cb("on_progress", [downloaded |-> total, total |-> downloaded], <<>>)

\* The progress closure iroh_get_with_progress hands to the node: one
\* on_progress invocation with an IrohDownloadProgress passed by value
progress_fn(downloaded, total) ==
    Cb("on_progress", [downloaded |-> downloaded, total |-> total], <<>>)

RECURSIVE download_loop_NoReturn(_)
\* The download loop without the early returns on the error items
download_loop_NoReturn(items) ==
    IF items = <<>> THEN [progress |-> <<>>, err |-> ""]
    ELSE LET item == Head(items)
             rest == download_loop_NoReturn(Tail(items))
         IN IF item.kind = "Progress"
            THEN [rest EXCEPT !.progress = <<progress_fn(item.bytes, 0)>> \o @]
            ELSE rest

RECURSIVE download_loop(_)
\* The `while let Some(item) = stream.next().await` loop of get_with_progress:
\* the progress invocations it makes, in order, and the error it returns with
download_loop(items) ==
    IF items = <<>> THEN [progress |-> <<>>, err |-> ""]
    ELSE LET item == Head(items) IN
         IF item.kind = "Progress"
         THEN LET rest == download_loop(Tail(items))
              IN [rest EXCEPT !.progress = <<progress_fn(item.bytes, 0)>> \o @]
         ELSE IF item.kind = "Error"
         THEN [progress |-> <<>>, err |-> "Download error"]
         ELSE IF item.kind = "DownloadError"
         THEN [progress |-> <<>>, err |-> "Download failed"]
         ELSE download_loop(Tail(items))

\* IrohNode::get_with_progress: parse the ticket, start the download, report
\* the progress items of its stream, then read the blob from the store. `start`
\* and `read` are the outcomes of starting the download and of the store read.
get_with_progress(h, ticket_str, start, items, read) ==
    LET t == ParseBlobTicket(ticket_str)
        local == Preimage(t.hash) \in nodes[h].blobs
        run == download_loop(items)
    IN
    IF ~t.ok THEN [ok |-> FALSE, err |-> "Failed to parse ticket", progress |-> <<>>,
                   nodes |-> nodes, native |-> FALSE]
    ELSE IF start = "err"
    THEN [ok |-> FALSE, err |-> "Failed to start download", progress |-> <<>>,
          nodes |-> nodes, native |-> TRUE]
    ELSE IF run.err # ""
    THEN [ok |-> FALSE, err |-> run.err, progress |-> run.progress,
          nodes |-> nodes, native |-> TRUE]
    ELSE IF read = "err" \/ (~local /\ t.node_id = NodeIdOf(h))
    THEN [ok |-> FALSE, err |-> "Failed to read bytes from store",
          progress |-> run.progress, nodes |-> nodes, native |-> TRUE]
    ELSE [ok |-> TRUE, bytes |-> Preimage(t.hash), progress |-> run.progress,
          nodes |-> [nodes EXCEPT ![h].blobs = @ \cup {Preimage(t.hash)}],
          native |-> TRUE]

\* The body of iroh_get_with_progress: the progress invocations made while the
\* node call runs, then the terminal callback made on its result
iroh_get_with_progress_body(handle, ticket, start, items, read) ==
    IF handle = NULL THEN Failure("handle cannot be null")
    ELSE IF ticket.null THEN Failure("ticket cannot be null")
    ELSE IF ~ticket.utf8 THEN Failure("Invalid ticket string")
    ELSE LET r == get_with_progress(handle, ticket.text, start, items, read) IN
         IF r.ok
         THEN [Same EXCEPT !.cbs = r.progress \o <<Cb("on_success", r.bytes, <<"bytes">>)>>,
                           !.nodes = r.nodes, !.native = TRUE,
                           !.inrt = Len(r.progress)]
         ELSE [Same EXCEPT !.cbs = r.progress \o <<Cb("on_failure", r.err, <<"cstring">>)>>,
                           !.native = r.native, !.inrt = Len(r.progress)]

\* iroh_get_with_progress(handle, ticket, callback)
iroh_get_with_progress(handle, ticket, start, items, read) ==
    Call("iroh_get_with_progress", handle, <<ticket>>,
         iroh_get_with_progress_body(handle, ticket, start, items, read))

\* put_with_timeout with the future awaited without a timer whatever timeout_ms
put_with_timeout_NoTimer(h, data, timeout_ms, res) ==
    [returns |-> res # "stall", timed_out |-> FALSE,
     r |-> put(h, data, IF res = "err" THEN "err" ELSE "ok")]

\* put_with_timeout with the late answer of the store still delivered
put_with_timeout_LateDelivered(h, data, timeout_ms, res) ==
    IF timeout_ms = 0 \/ res \in {"ok", "err", "late"}
    THEN [returns |-> res # "stall", timed_out |-> FALSE,
          r |-> put(h, data, IF res = "err" THEN "err" ELSE "ok")]
    ELSE [returns |-> TRUE, timed_out |-> TRUE,
          r |-> [ok |-> FALSE, err |-> "Operation timed out", nodes |-> nodes]]

\* put_with_timeout with timeout_ms = 0 taken as a timer of no duration
put_with_timeout_ZeroFires(h, data, timeout_ms, res) ==
    IF res \in {"ok", "err"} /\ timeout_ms # 0
    THEN [returns |-> TRUE, timed_out |-> FALSE, r |-> put(h, data, res)]
    ELSE [returns |-> TRUE, timed_out |-> TRUE,
          r |-> [ok |-> FALSE, err |-> "Operation timed out",
                 nodes |-> IF res = "late" THEN put(h, data, "ok").nodes ELSE nodes]]

\* IrohNode::put_with_timeout. res: "ok", "err", "late" (the store answers
\* after the timer would fire) or "stall" (the store never answers). With
\* timeout_ms = 0 the future is awaited without a timer.
put_with_timeout(h, data, timeout_ms, res) ==
    IF timeout_ms = 0 \/ res \in {"ok", "err"}
    THEN [returns |-> res # "stall", timed_out |-> FALSE,
          r |-> put(h, data, IF res = "err" THEN "err" ELSE "ok")]
    ELSE [returns |-> TRUE, timed_out |-> TRUE,
          r |-> [ok |-> FALSE, err |-> "Operation timed out",
                 nodes |-> IF res = "late" THEN put(h, data, "ok").nodes ELSE nodes]]

\* IrohNode::get_with_timeout
get_with_timeout(h, ticket_str, timeout_ms, res) ==
    IF timeout_ms = 0 \/ res \in {"ok", "err"} \/ ~ParseBlobTicket(ticket_str).ok
    THEN [returns |-> res # "stall" \/ ~ParseBlobTicket(ticket_str).ok,
          timed_out |-> FALSE,
          r |-> get(h, ticket_str, IF res = "err" THEN "err" ELSE "ok")]
    ELSE [returns |-> TRUE, timed_out |-> TRUE,
          r |-> [ok |-> FALSE, err |-> "Operation timed out", native |-> TRUE,
                 nodes |-> IF res = "late" THEN get(h, ticket_str, "ok").nodes ELSE nodes]]

\* The body of iroh_put_with_options, and whether the call returns at all
iroh_put_with_options_body(handle, bytes, timeout_ms, res) ==
    IF handle = NULL THEN Failure("handle cannot be null")
    ELSE LET data == CopyBytes(bytes)
             r == put_with_timeout(handle, data, timeout_ms, res).r
         IN IF r.ok
            THEN [Same EXCEPT !.cbs = <<Cb("on_success", r.ticket, <<"cstring">>)>>,
                              !.nodes = r.nodes, !.native = TRUE]
            ELSE [NativeFailure(r.err) EXCEPT !.nodes = r.nodes]
iroh_put_with_options_returns(handle, bytes, timeout_ms, res) ==
    handle # NULL => put_with_timeout(handle, CopyBytes(bytes), timeout_ms, res).returns

\* iroh_put_with_options(handle, bytes, options, callback)
iroh_put_with_options(handle, bytes, timeout_ms, res) ==
    /\ iroh_put_with_options_returns(handle, bytes, timeout_ms, res)
    /\ Call("iroh_put_with_options", handle, <<>>,
            iroh_put_with_options_body(handle, bytes, timeout_ms, res))

\* The body of iroh_get_with_options, and whether the call returns at all
iroh_get_with_options_body(handle, ticket, timeout_ms, res) ==
    IF handle = NULL THEN Failure("handle cannot be null")
    ELSE IF ticket.null THEN Failure("ticket cannot be null")
    ELSE IF ~ticket.utf8 THEN Failure("Invalid ticket string")
    ELSE LET r == get_with_timeout(handle, ticket.text, timeout_ms, res).r IN
         IF r.ok
         THEN [Same EXCEPT !.cbs = <<Cb("on_success", r.bytes, <<"bytes">>)>>,
                           !.nodes = r.nodes, !.native = TRUE]
         ELSE [Failure(r.err) EXCEPT !.nodes = r.nodes, !.native = r.native]
iroh_get_with_options_returns(handle, ticket, timeout_ms, res) ==
    (handle # NULL /\ ~ticket.null /\ ticket.utf8)
        => get_with_timeout(handle, ticket.text, timeout_ms, res).returns

\* iroh_get_with_options(handle, ticket, options, callback)
iroh_get_with_options(handle, ticket, timeout_ms, res) ==
    /\ iroh_get_with_options_returns(handle, ticket, timeout_ms, res)
    /\ Call("iroh_get_with_options", handle, <<ticket>>,
            iroh_get_with_options_body(handle, ticket, timeout_ms, res))

\* IrohNode::info: the endpoint's id, its first relay URL if it has one, and
\* whether it has a relay URL or an IP address. It has no Err path.
info(h, relay_up, has_ip) ==
    LET relay == relay_up /\ nodes[h].relay # "disabled" IN
    [ok |-> TRUE, node_id |-> NodeIdOf(h), relay_url |-> relay,
     is_connected |-> relay \/ has_ip]

\* iroh_node_info(handle, callback)
iroh_node_info(handle, relay_up, has_ip) ==
    Call("iroh_node_info", handle, <<>>,
        IF handle = NULL THEN Failure("handle cannot be null")
        ELSE LET r == info(handle, relay_up, has_ip) IN
             IF r.ok
             THEN [Same EXCEPT
                     !.cbs = <<Cb("on_success",
                                  [node_id |-> r.node_id, relay_url |-> r.relay_url,
                                   is_connected |-> r.is_connected],
                                  IF r.relay_url THEN <<"cstring", "cstring">>
                                  ELSE <<"cstring">>)>>,
                     !.native = TRUE]
             ELSE NativeFailure("info"))

\* The IrohTicketInfo of an input that is no ticket
InvalidTicketInfo ==
    [is_valid |-> FALSE, hash |-> NullStr, node_id |-> NullStr, is_recursive |-> FALSE]

\* A faulty iroh_validate_ticket: a null ticket returns without a callback,
\* and whatever is no blob ticket keeps a node_id string.
iroh_validate_ticket_Lossy(ticket) ==
    Call("iroh_validate_ticket", NULL, <<ticket>>,
        LET parsed == ParseBlobTicket(ticket.text) IN
        IF ticket.null THEN Same
        ELSE IF ticket.utf8 /\ parsed.ok
        THEN [Same EXCEPT
                !.cbs = <<Cb("on_complete",
                             [is_valid |-> TRUE,
                              hash |-> Str(HashToString(parsed.hash)),
                              node_id |-> Str(<<parsed.node_id>>),
                              is_recursive |-> parsed.format = "HashSeq"],
                             <<"cstring", "cstring">>)>>]
        ELSE [Same EXCEPT
                !.cbs = <<Cb("on_complete",
                             [InvalidTicketInfo EXCEPT !.node_id = Str(<<"unknown">>)],
                             <<"cstring">>)>>])

\* The body of iroh_validate_ticket
iroh_validate_ticket_body(ticket) ==
    LET parsed == ParseBlobTicket(ticket.text)
        result ==
            IF ticket.null THEN InvalidTicketInfo
            ELSE IF ~ticket.utf8 THEN InvalidTicketInfo
            ELSE IF parsed.ok
            THEN [is_valid |-> TRUE,
                  hash |-> Str(HashToString(parsed.hash)),
                  node_id |-> Str(<<parsed.node_id>>),
                  is_recursive |-> parsed.format = "HashSeq"]
            ELSE InvalidTicketInfo
    IN [Same EXCEPT
          !.cbs = <<Cb("on_complete", result,
                       IF result.is_valid THEN <<"cstring", "cstring">> ELSE <<>>)>>]

\* iroh_validate_ticket(ticket, callback)
iroh_validate_ticket(ticket) ==
    Call("iroh_validate_ticket", NULL, <<ticket>>, iroh_validate_ticket_body(ticket))

\* ---------------------------------------------------------------- authors
\* iroh_author_from_hex(secret_hex, callback)
iroh_author_from_hex(secret_hex) ==
    Call("iroh_author_from_hex", NULL, <<secret_hex>>,
        IF secret_hex.null THEN Failure("secret_hex cannot be null")
        ELSE IF ~secret_hex.utf8 THEN Failure("Invalid UTF-8 in secret_hex")
        ELSE LET d == HexDecode(secret_hex.text) IN
             IF d.ok /\ Len(d.bytes) = AuthorKeyLen
             THEN [Same EXCEPT
                     !.cbs = <<Cb("on_success",
                                  [secret |-> d.bytes, id |-> AuthorIdOf(d.bytes)],
                                  <<>>)>>]
             ELSE IF d.ok THEN Failure("Invalid secret length")
             ELSE Failure("Invalid hex string"))

\* iroh_author_import(handle, author_secret, callback)
iroh_author_import(handle, author_secret, res) ==
    Call("iroh_author_import", handle, <<>>,
        IF handle = NULL THEN Failure("handle cannot be null")
        ELSE IF ~docs_is_some(handle) THEN Failure("docs not enabled on this node")
        ELSE IF res = "ok"
        THEN [Same EXCEPT
                !.cbs = <<Cb("on_complete", "", <<>>)>>,
                !.nodes = [nodes EXCEPT ![handle].authors = @ \cup {AuthorIdOf(author_secret)}],
                !.native = TRUE]
        ELSE NativeFailure("author_import"))

\* ------------------------------------------------------------------- tags
\* iroh_blob_tag_set(handle, tag_name, hash_str, format, callback)
iroh_blob_tag_set(handle, tag_name, hash_str, format, res) ==
    Call("iroh_blob_tag_set", handle, <<tag_name, hash_str>>,
        IF handle = NULL THEN Failure("handle cannot be null")
        ELSE IF tag_name.null THEN Failure("tag_name cannot be null")
        ELSE IF hash_str.null THEN Failure("hash_str cannot be null")
        ELSE IF ~tag_name.utf8 THEN Failure("Invalid tag_name UTF-8")
        ELSE IF ~hash_str.utf8 THEN Failure("Invalid hash UTF-8")
        ELSE IF ~ParseHash(hash_str.text).ok THEN Failure("Invalid hash")
        ELSE IF res = "ok"
        THEN [Same EXCEPT
                !.cbs = <<Cb("on_complete", "", <<>>)>>,
                !.nodes = [nodes EXCEPT ![handle].tags =
                    {t \in @ : t.name # tag_name.text}
                    \cup {[name |-> tag_name.text,
                           hash |-> ParseHash(hash_str.text).hash,
                           format |-> format]}],
                !.native = TRUE]
        ELSE NativeFailure("tags.set"))

\* A faulty iroh_blob_tag_delete: the tag name goes to the store as raw bytes
\* and is only checked for UTF-8 when the store has answered.
iroh_blob_tag_delete_LateCheck(handle, tag_name, res) ==
    Call("iroh_blob_tag_delete", handle, <<tag_name>>,
        IF handle = NULL THEN Failure("handle cannot be null")
        ELSE IF tag_name.null THEN Failure("tag_name cannot be null")
        ELSE IF ~tag_name.utf8 THEN NativeFailure("Invalid tag_name UTF-8")
        ELSE IF res = "ok"
        THEN [Same EXCEPT
                !.cbs = <<Cb("on_complete", "", <<>>)>>,
                !.nodes = [nodes EXCEPT ![handle].tags = {t \in @ : t.name # tag_name.text}],
                !.native = TRUE]
        ELSE NativeFailure("tags.delete"))

\* iroh_blob_tag_delete(handle, tag_name, callback)
iroh_blob_tag_delete(handle, tag_name, res) ==
    Call("iroh_blob_tag_delete", handle, <<tag_name>>,
        IF handle = NULL THEN Failure("handle cannot be null")
        ELSE IF tag_name.null THEN Failure("tag_name cannot be null")
        ELSE IF ~tag_name.utf8 THEN Failure("Invalid tag_name UTF-8")
        ELSE IF res = "ok"
        THEN [Same EXCEPT
                !.cbs = <<Cb("on_complete", "", <<>>)>>,
                !.nodes = [nodes EXCEPT ![handle].tags = {t \in @ : t.name # tag_name.text}],
                !.native = TRUE]
        ELSE NativeFailure("tags.delete"))

\* iroh_blob_ticket_create(handle, hash_str, format, callback): the ticket is
\* built from the endpoint's address and the parsed hash; the store is not asked.
iroh_blob_ticket_create(handle, hash_str, format) ==
    Call("iroh_blob_ticket_create", handle, <<hash_str>>,
        IF handle = NULL THEN Failure("handle cannot be null")
        ELSE IF hash_str.null THEN Failure("hash_str cannot be null")
        ELSE IF ~hash_str.utf8 THEN Failure("Invalid hash UTF-8")
        ELSE IF ~ParseHash(hash_str.text).ok THEN Failure("Invalid hash")
        ELSE [Same EXCEPT
                !.cbs = <<Cb("on_success",
                             TicketToString(NodeIdOf(handle),
                                            ParseHash(hash_str.text).hash, format),
                             <<"cstring">>)>>])

\* ------------------------------------------------------ memory management
\* A faulty iroh_string_free: without the null check, a null argument
\* releases whatever string the allocator handed out first.
iroh_string_free_NoNullCheck(s) ==
    Call("iroh_string_free", s, <<>>,
        LET strings == {p \in Ptrs : heap[p].kind = "cstring"}
            victim == IF s # NULL THEN {s}
                      ELSE {p \in strings : \A q \in strings : p <= q}
        IN [Same EXCEPT !.heap = [p \in Ptrs |-> IF p \in victim THEN FreeCell
                                                  ELSE heap[p]]])

\* drop(CString::from_raw(p)), drop(Vec::from_raw_parts(p, ..)), drop(Box::from_raw(p)),
\* one pointer after another: the allocation is returned to the allocator;
\* returning one that is not allocated corrupts the allocator (a double free).
RECURSIVE Dealloc(_, _)
Dealloc(hp, ps) ==
    IF ps = <<>> THEN hp
    ELSE Dealloc([hp EXCEPT ![Head(ps)] =
                     IF hp[Head(ps)].kind = "free"
                     THEN [kind |-> "double-freed", owner |-> NULL]
                     ELSE FreeCell],
                 Tail(ps))

\* iroh_string_free(s)
iroh_string_free(s) ==
    Call("iroh_string_free", s, <<>>,
        IF s # NULL THEN [Same EXCEPT !.heap = Dealloc(heap, <<s>>)]
        ELSE Same)

\* iroh_bytes_free(bytes): bytes.data is the pointer
iroh_bytes_free(data) ==
    Call("iroh_bytes_free", data, <<>>,
        IF data # NULL THEN [Same EXCEPT !.heap = Dealloc(heap, <<data>>)]
        ELSE Same)

\* What iroh_doc_entry_free releases, in its order: the box, the key bytes
\* when key.data is not null, the content_hash string when it is not null
entry_frees(entry) ==
    LET keys == {p \in Ptrs : heap[p] = [kind |-> "bytes", owner |-> entry]}
        hashes == {p \in Ptrs : heap[p] = [kind |-> "cstring", owner |-> entry]}
    IN <<entry>> \o (IF keys = {} THEN <<>> ELSE <<CHOOSE p \in keys : TRUE>>)
               \o (IF hashes = {} THEN <<>> ELSE <<CHOOSE p \in hashes : TRUE>>)

\* iroh_doc_entry_free that leaves the key bytes allocated
iroh_doc_entry_free_KeyKept(entry) ==
    Call("iroh_doc_entry_free", entry, <<>>,
        IF entry = NULL THEN Same
        ELSE [Same EXCEPT !.heap =
                Dealloc(heap, SelectSeq(entry_frees(entry),
                                        LAMBDA p : heap[p].kind # "bytes"))])

\* iroh_doc_entry_free(entry): the box, its key bytes and its content_hash string
iroh_doc_entry_free(entry) ==
    Call("iroh_doc_entry_free", entry, <<>>,
        IF entry = NULL THEN Same
        ELSE [Same EXCEPT !.heap = Dealloc(heap, entry_frees(entry))])

\* iroh_doc_event_free(event): the entry (through iroh_doc_entry_free) when the
\* field is not null, then the peer_id and content_hash strings when not null
iroh_doc_event_free(event) ==
    Call("iroh_doc_event_free", NULL, <<>>,
        [Same EXCEPT
            !.heap = Dealloc(heap,
                (IF event.entry # NULL THEN entry_frees(event.entry) ELSE <<>>)
                \o (IF event.peer_id # NULL THEN <<event.peer_id>> ELSE <<>>)
                \o (IF event.content_hash # NULL THEN <<event.content_hash>> ELSE <<>>)),
            !.subs = [s \in SubHandles |-> [subs[s] EXCEPT !.held = @ \ {event}]]])

\* -------------------------------------------------------------- documents
NoDoc == [status |-> "none", node_handle |-> NULL, ns |-> ""]

LiveDocs == {d \in DocHandles : docs[d].status = "live"}
FreshDoc == CHOOSE d \in DocHandles :
                /\ docs[d].status = "none"
                /\ \A g \in DocHandles : docs[g].status = "none" => d <= g

HasPrefix(key, prefix) ==
    Len(prefix) <= Len(key) /\ SubSeq(key, 1, Len(prefix)) = prefix

\* the order of author ids (their first byte decides between the ids used)
HexVal(c) == CHOOSE v \in 0..15 :
    <<"0", "1", "2", "3", "4", "5", "6", "7", "8", "9",
      "a", "b", "c", "d", "e", "f">>[v + 1] = c
AuthorRank(id) == 16 * HexVal(id[1][1]) + HexVal(id[1][2])

\* Doc::set_bytes (docs engine): the value goes to the blob store, then the
\* entry is signed by a known author and inserted; an empty value is refused.
\* Inserting at `key` prunes the author's entries that `key` is a prefix of.
set_bytes(h, ns, author_id, key, value, res) ==
    IF res = "err" THEN [ok |-> FALSE, nodes |-> nodes, clock |-> clock]
    ELSE IF author_id \notin nodes[h].authors \/ value = <<>>
    THEN [ok |-> FALSE, clock |-> clock,
          nodes |-> [nodes EXCEPT ![h].blobs = @ \cup {value}]]
    ELSE [ok |-> TRUE, hash |-> Digest(value), clock |-> clock + 1,
          nodes |-> [nodes EXCEPT
              ![h].blobs = @ \cup {value},
              ![h].entries =
                  {e \in @ : ~(e.ns = ns /\ e.author = author_id /\ HasPrefix(e.key, key))}
                  \cup {[ns |-> ns, author |-> author_id, key |-> key,
                         hash |-> Digest(value), len |-> Len(value),
                         ts |-> clock + 1]}]]

\* Doc::get_many(Query::key_exact(key)) then stream.next(): the non-empty
\* entries with that key come ordered by author, and the first is taken.
get_exact(h, ns, key) ==
    LET found == {e \in nodes[h].entries : e.ns = ns /\ e.key = key /\ e.len > 0} IN
    IF found = {} THEN [some |-> FALSE]
    ELSE [some |-> TRUE,
          entry |-> CHOOSE e \in found :
                        \A f \in found : AuthorRank(e.author) <= AuthorRank(f.author)]

\* Doc::del(author_id, prefix): an empty entry at `prefix` replaces the
\* author's entries under it; the number of entries it removed is returned.
del(h, ns, author_id, prefix, res) ==
    LET gone == {e \in nodes[h].entries :
                    e.ns = ns /\ e.author = author_id /\ HasPrefix(e.key, prefix)} IN
    IF res = "err" \/ author_id \notin nodes[h].authors
    THEN [ok |-> FALSE, nodes |-> nodes, clock |-> clock]
    ELSE [ok |-> TRUE, count |-> Cardinality({e \in gone : e.len > 0}),
          clock |-> clock + 1,
          nodes |-> [nodes EXCEPT ![h].entries =
              (@ \ gone) \cup {[ns |-> ns, author |-> author_id, key |-> prefix,
                                hash |-> Digest(<<>>), len |-> 0, ts |-> clock + 1]}]]

\* convert_entry_to_ffi(entry): the IrohDocEntry and what it owns on the heap
\* (an empty key Vec owns no allocation)
convert_entry_to_ffi(e) ==
    [entry |-> [author_id |-> e.author, key |-> e.key,
                content_hash |-> HashToString(e.hash),
                content_size |-> e.len, timestamp |-> e.ts],
     owned |-> <<"entry">> \o (IF e.key = <<>> THEN <<>> ELSE <<"+bytes">>)
               \o <<"+cstring">>]

\* The document handles handed out so far
DocsMade == Cardinality({d \in DocHandles : docs[d].status # "none"})

\* iroh_doc_create(handle, callback)
iroh_doc_create(handle, res) ==
    /\ \E d \in DocHandles : docs[d].status = "none"
    /\ Call("iroh_doc_create", handle, <<>>,
        IF handle = NULL THEN Failure("handle cannot be null")
        ELSE IF ~docs_is_some(handle) THEN Failure("docs not enabled on this node")
        ELSE IF res = "ok"
        THEN LET ns == NamespaceToks[FreshDoc] IN
             [Same EXCEPT
                !.cbs = <<Cb("on_success", [handle |-> FreshDoc, namespace_id |-> ns],
                             <<"cstring">>)>>,
                !.docs = [docs EXCEPT ![FreshDoc] =
                            [status |-> "live", node_handle |-> handle, ns |-> ns]],
                !.nodes = [nodes EXCEPT ![handle].replicas = @ \cup {ns}],
                !.native = TRUE]
        ELSE NativeFailure("docs.create"))

\* iroh_doc_join(handle, ticket, callback)
iroh_doc_join(handle, ticket, res) ==
    /\ \E d \in DocHandles : docs[d].status = "none"
    /\ Call("iroh_doc_join", handle, <<ticket>>,
        IF handle = NULL THEN Failure("handle cannot be null")
        ELSE IF ticket.null THEN Failure("ticket cannot be null")
        ELSE IF ~ticket.utf8 THEN Failure("Invalid ticket UTF-8")
        ELSE IF ~ParseDocTicket(ticket.text).ok THEN Failure("Invalid doc ticket")
        ELSE IF ~docs_is_some(handle) THEN Failure("docs not enabled on this node")
        ELSE IF res = "ok"
        THEN LET ns == ParseDocTicket(ticket.text).ns IN
             [Same EXCEPT
                !.cbs = <<Cb("on_success", [handle |-> FreshDoc, namespace_id |-> ns],
                             <<"cstring">>)>>,
                !.docs = [docs EXCEPT ![FreshDoc] =
                            [status |-> "live", node_handle |-> handle, ns |-> ns]],
                !.nodes = [nodes EXCEPT ![handle].replicas = @ \cup {ns}],
                !.native = TRUE]
        ELSE NativeFailure("docs.import"))

\* The body of iroh_doc_set
iroh_doc_set_body(doc_handle, author_secret, key, value, res) ==
    IF doc_handle = NULL THEN Failure("doc_handle cannot be null")
    ELSE LET wrapper == docs[doc_handle]
             r == set_bytes(wrapper.node_handle, wrapper.ns,
                            AuthorIdOf(author_secret),
                            CopyBytes(key), CopyBytes(value), res)
         IN IF r.ok
            THEN [Same EXCEPT
                    !.cbs = <<Cb("on_success", HashToString(r.hash), <<"cstring">>)>>,
                    !.nodes = r.nodes, !.clock = r.clock, !.native = TRUE]
            ELSE [NativeFailure("set_bytes") EXCEPT !.nodes = r.nodes]

\* iroh_doc_set(doc_handle, author_secret, key, value, callback)
iroh_doc_set(doc_handle, author_secret, key, value, res) ==
    /\ clock < MaxClock
    /\ Call("iroh_doc_set", doc_handle, <<>>,
            iroh_doc_set_body(doc_handle, author_secret, key, value, res))

\* The body of iroh_doc_get
iroh_doc_get_body(doc_handle, key, res) ==
    IF doc_handle = NULL THEN Failure("doc_handle cannot be null")
    ELSE LET wrapper == docs[doc_handle]
             r == get_exact(wrapper.node_handle, wrapper.ns, CopyBytes(key))
         IN IF res = "err" THEN NativeFailure("get_many")
            ELSE IF r.some
            THEN [Same EXCEPT
                    !.cbs = <<Cb("on_success", convert_entry_to_ffi(r.entry).entry,
                                 convert_entry_to_ffi(r.entry).owned)>>,
                    !.native = TRUE]
            ELSE [Same EXCEPT !.cbs = <<Cb("on_success", "null", <<>>)>>,
                              !.native = TRUE]

\* iroh_doc_get(doc_handle, key, callback)
iroh_doc_get(doc_handle, key, res) ==
    Call("iroh_doc_get", doc_handle, <<>>, iroh_doc_get_body(doc_handle, key, res))

\* The order of keys: bytewise lexicographic
ByteVal(b) == 16 * HexVal(b[1]) + HexVal(b[2])
RECURSIVE KeyLess(_, _)
KeyLess(a, b) ==
    IF b = <<>> THEN FALSE
    ELSE IF a = <<>> THEN TRUE
    ELSE IF ByteVal(Head(a)) # ByteVal(Head(b)) THEN ByteVal(Head(a)) < ByteVal(Head(b))
    ELSE KeyLess(Tail(a), Tail(b))

\* Doc::get_many(Query::key_prefix(prefix)): the non-empty entries of the
\* document under `prefix`, by author and then by key
RECURSIVE InQueryOrder(_)
InQueryOrder(es) ==
    IF es = {} THEN <<>>
    ELSE LET first == CHOOSE e \in es : \A f \in es \ {e} :
                          \/ AuthorRank(e.author) < AuthorRank(f.author)
                          \/ e.author = f.author /\ KeyLess(e.key, f.key)
         IN <<first>> \o InQueryOrder(es \ {first})
\* The prefix query with the empty entries that deletes leave included
get_many_WithEmpty(h, ns, prefix) ==
    InQueryOrder({e \in nodes[h].entries : e.ns = ns /\ HasPrefix(e.key, prefix)})

get_many(h, ns, prefix) ==
    InQueryOrder({e \in nodes[h].entries : e.ns = ns /\ HasPrefix(e.key, prefix) /\ e.len > 0})

\* iroh_doc_get_many reporting the end of the stream from inside the async
\* block, after the loop, instead of on block_on's result
iroh_doc_get_many_body_CompletesInside(doc_handle, prefix, res) ==
    IF doc_handle = NULL THEN Failure("doc_handle cannot be null")
    ELSE LET wrapper == docs[doc_handle]
             found == get_many(wrapper.node_handle, wrapper.ns, CopyBytes(prefix))
             read == IF res = "cut" /\ Len(found) > 1 THEN SubSeq(found, 1, 1) ELSE found
             entries == [i \in 1..Len(read) |->
                            Cb("on_entry", convert_entry_to_ffi(read[i]).entry,
                               convert_entry_to_ffi(read[i]).owned)]
         IN IF res = "err" THEN NativeFailure("get_many")
            ELSE IF res = "cut"
            THEN [Same EXCEPT
                    !.cbs = entries \o NativeFailure("get_many").cbs,
                    !.native = TRUE, !.inrt = Len(entries)]
            ELSE [Same EXCEPT
                    !.cbs = entries \o <<Cb("on_complete", "", <<>>)>>,
                    !.native = TRUE, !.inrt = Len(entries) + 1]

\* iroh_doc_get_many whose Err arm reports the failure and lets the loop run
\* on: the stream's end is then reported with on_complete as well
iroh_doc_get_many_body_NoReturn(doc_handle, prefix, res) ==
    IF doc_handle = NULL THEN Failure("doc_handle cannot be null")
    ELSE LET wrapper == docs[doc_handle]
             found == get_many(wrapper.node_handle, wrapper.ns, CopyBytes(prefix))
             read == IF res = "cut" /\ Len(found) > 1 THEN SubSeq(found, 1, 1) ELSE found
             entries == [i \in 1..Len(read) |->
                            Cb("on_entry", convert_entry_to_ffi(read[i]).entry,
                               convert_entry_to_ffi(read[i]).owned)]
         IN IF res = "err" THEN NativeFailure("get_many")
            ELSE IF res = "cut"
            THEN [Same EXCEPT
                    !.cbs = entries \o NativeFailure("get_many").cbs
                               \o <<Cb("on_complete", "", <<>>)>>,
                    !.native = TRUE, !.inrt = Len(entries)]
            ELSE [Same EXCEPT
                    !.cbs = entries \o <<Cb("on_complete", "", <<>>)>>,
                    !.native = TRUE, !.inrt = Len(entries)]

\* iroh_doc_get_many(doc_handle, prefix, callback): block_on the query and the
\* whole stream; each entry goes to on_entry as it is read, an error of the
\* stream ends the call with on_failure, the end of the stream with on_complete.
\* res = "err": the query fails; res = "cut": the stream fails after one entry
iroh_doc_get_many_body(doc_handle, prefix, res) ==
    IF doc_handle = NULL THEN Failure("doc_handle cannot be null")
    ELSE LET wrapper == docs[doc_handle]
             found == get_many(wrapper.node_handle, wrapper.ns, CopyBytes(prefix))
             read == IF res = "cut" /\ Len(found) > 1 THEN SubSeq(found, 1, 1) ELSE found
             entries == [i \in 1..Len(read) |->
                            Cb("on_entry", convert_entry_to_ffi(read[i]).entry,
                               convert_entry_to_ffi(read[i]).owned)]
         IN IF res = "err" THEN NativeFailure("get_many")
            ELSE IF res = "cut"
            THEN [Same EXCEPT
                    !.cbs = entries \o NativeFailure("get_many").cbs,
                    !.native = TRUE, !.inrt = Len(entries)]
            ELSE [Same EXCEPT
                    !.cbs = entries \o <<Cb("on_complete", "", <<>>)>>,
                    !.native = TRUE, !.inrt = Len(entries)]

iroh_doc_get_many(doc_handle, prefix, res) ==
    Call("iroh_doc_get_many", doc_handle, <<>>,
         iroh_doc_get_many_body(doc_handle, prefix, res))

\* The body of iroh_doc_del
iroh_doc_del_body(doc_handle, author_secret, key, res) ==
    IF doc_handle = NULL THEN Failure("doc_handle cannot be null")
    ELSE LET wrapper == docs[doc_handle]
             r == del(wrapper.node_handle, wrapper.ns, AuthorIdOf(author_secret),
                      CopyBytes(key), res)
         IN IF r.ok
            THEN [Same EXCEPT !.cbs = <<Cb("on_success", r.count, <<>>)>>,
                              !.nodes = r.nodes, !.clock = r.clock, !.native = TRUE]
            ELSE NativeFailure("del")

\* iroh_doc_del(doc_handle, author_secret, key, callback)
iroh_doc_del(doc_handle, author_secret, key, res) ==
    /\ clock < MaxClock
    /\ Call("iroh_doc_del", doc_handle, <<>>,
            iroh_doc_del_body(doc_handle, author_secret, key, res))

\* The body of iroh_doc_read_content: store.get_bytes(hash)
iroh_doc_read_content_body(handle, content_hash, res) ==
    IF handle = NULL THEN Failure("handle cannot be null")
    ELSE IF content_hash.null THEN Failure("content_hash cannot be null")
    ELSE IF ~content_hash.utf8 THEN Failure("Invalid hash UTF-8")
    ELSE IF ~ParseHash(content_hash.text).ok THEN Failure("Invalid hash")
    ELSE LET bytes == Preimage(ParseHash(content_hash.text).hash) IN
         IF res = "ok" /\ bytes \in nodes[handle].blobs
         THEN [Same EXCEPT !.cbs = <<Cb("on_success", bytes, <<"bytes">>)>>,
                           !.native = TRUE]
         ELSE NativeFailure("get_bytes")

\* iroh_doc_read_content(handle, content_hash, callback)
iroh_doc_read_content(handle, content_hash, res) ==
    Call("iroh_doc_read_content", handle, <<content_hash>>,
         iroh_doc_read_content_body(handle, content_hash, res))

\* iroh_doc_share(doc_handle, mode, callback)
iroh_doc_share(doc_handle, mode, res) ==
    Call("iroh_doc_share", doc_handle, <<>>,
        IF doc_handle = NULL THEN Failure("doc_handle cannot be null")
        ELSE LET wrapper == docs[doc_handle] IN
             IF res = "ok"
             THEN [Same EXCEPT
                     !.cbs = <<Cb("on_success",
                                  DocTicketToString(wrapper.ns, mode,
                                                    NodeIdOf(wrapper.node_handle)),
                                  <<"cstring">>)>>,
                     !.native = TRUE]
             ELSE NativeFailure("share"))

\* iroh_doc_close taking the subscriptions of the document down with the
\* wrapper, as if their tasks read the document through the handle
iroh_doc_close_StopsTasks(doc_handle) ==
    Call("iroh_doc_close", doc_handle, <<>>,
        IF doc_handle = NULL THEN Same
        ELSE [Same EXCEPT
                !.docs = [docs EXCEPT ![doc_handle].status = "freed"],
                !.subs = [s \in SubHandles |->
                            IF /\ subs[s].ns = docs[doc_handle].ns
                               /\ subs[s].node = docs[doc_handle].node_handle
                               /\ subs[s].pc \in {"subscribing", "looping"}
                            THEN [subs[s] EXCEPT !.pc = "dropped", !.stream = <<>>]
                            ELSE subs[s]]])

\* An iroh_doc_close whose wrapper owns the node: dropping the wrapper drops
\* the node with its runtime
iroh_doc_close_DropsNode(doc_handle) ==
    Call("iroh_doc_close", doc_handle, <<>>,
        IF doc_handle = NULL THEN Same
        ELSE LET r == shutdown(docs[doc_handle].node_handle, "ok") IN
             [Same EXCEPT !.docs = [docs EXCEPT ![doc_handle].status = "freed"],
                          !.nodes = r.nodes, !.subs = r.subs])

\* iroh_doc_close(doc_handle): drops the DocWrapper, nothing else
iroh_doc_close(doc_handle) ==
    Call("iroh_doc_close", doc_handle, <<>>,
        IF doc_handle = NULL THEN Same
        ELSE [Same EXCEPT !.docs = [docs EXCEPT ![doc_handle].status = "freed"]])

\* ---------------------------------------------------------- subscriptions
\* handle:    the Box<SubscriptionWrapper>: "none", "live" or "freed"
\* cancel_tx: the wrapper's Option<oneshot::Sender<()>>: "some" or "none"
\* chan:      what cancel_rx will see: "empty" or "sent"
\* pc:        the spawned task: "none", "subscribing" (in doc.subscribe().await),
\*            "looping" (in select!), "done" (returned) or "dropped" (its
\*            runtime was dropped before it returned)
\* stream:    what the event source has produced and the task has not taken
\* emitted:   how many events the source has produced
\* log:       the callbacks the task invoked, in order, and the returns of
\*            iroh_subscription_cancel among them
\* signals:   how many times a cancellation signal was sent (tx.send called)
\* uaf:       how many times the wrapper was used after it was freed
\* held:      the IrohDocEvents on_event was given and the caller has not freed
NoSub == [handle |-> "none", cancel_tx |-> "none", chan |-> "empty", pc |-> "none",
          node |-> NULL, ns |-> "", stream |-> <<>>, emitted |-> 0, log |-> <<>>,
          signals |-> 0, uaf |-> 0, held |-> {}]

FreshSub == CHOOSE s \in SubHandles :
                /\ subs[s].handle = "none"
                /\ \A g \in SubHandles : subs[g].handle = "none" => s <= g

EventTypes == {"InsertLocal", "InsertRemote", "ContentReady", "PendingContentReady",
               "NeighborUp", "NeighborDown", "SyncFinished"}

\* convert_live_event_to_ffi(event): which fields of the IrohDocEvent are set
\* and what they own on the heap
convert_live_event_to_ffi(ev) ==
    [event_type |-> ev.type,
     owned |->
        IF ev.type = "InsertLocal" THEN convert_entry_to_ffi(ev.entry).owned
        ELSE IF ev.type = "InsertRemote"
        THEN convert_entry_to_ffi(ev.entry).owned \o <<"cstring">>
        ELSE IF ev.type = "PendingContentReady" THEN <<>>
        ELSE <<"cstring">>]

\* The IrohDocEvent of `ev` once its allocations are at `ptrs` (in the order
\* of convert_live_event_to_ffi(ev).owned): a field is a pointer or NULL
IrohDocEvent(ev, ptrs) ==
    [entry |-> IF ev.type \in {"InsertLocal", "InsertRemote"} THEN ptrs[1] ELSE NULL,
     peer_id |-> IF ev.type \in {"InsertRemote", "NeighborUp", "NeighborDown",
                                 "SyncFinished"}
                 THEN ptrs[Len(ptrs)] ELSE NULL,
     content_hash |-> IF ev.type = "ContentReady" THEN ptrs[1] ELSE NULL]

\* What the exported function `op`, given `handle`, dereferences: the handle
\* it is given (after its null check) and, in the operations on a document,
\* the node_handle stored in the DocWrapper
NodeHandleOps ==
    {"iroh_node_destroy", "iroh_node_close", "iroh_put", "iroh_get",
     "iroh_put_with_options", "iroh_get_with_options", "iroh_get_with_progress",
     "iroh_node_info", "iroh_author_import", "iroh_doc_create", "iroh_doc_join",
     "iroh_doc_read_content", "iroh_blob_tag_set", "iroh_blob_tag_delete",
     "iroh_blob_ticket_create"}
DocHandleOps ==
    {"iroh_doc_set", "iroh_doc_get", "iroh_doc_get_many", "iroh_doc_del",
     "iroh_doc_share", "iroh_doc_subscribe"}
Derefs(op, handle) ==
    IF handle = NULL THEN {}
    ELSE IF op \in NodeHandleOps THEN {<<"node", handle>>}
    ELSE IF op \in DocHandleOps
    THEN {<<"doc", handle>>, <<"node", docs[handle].node_handle>>}
    ELSE IF op = "iroh_doc_close" THEN {<<"doc", handle>>}
    ELSE IF op = "iroh_subscription_cancel" THEN {<<"sub", handle>>}
    ELSE {}

\* A task that keeps the pointer to the DocWrapper and reads the Doc through
\* it whenever it runs
TaskDerefs_Wrapper(s) ==
    {<<"doc", d>> : d \in {g \in DocHandles : /\ docs[g].status # "none"
                                               /\ docs[g].ns = subs[s].ns
                                               /\ docs[g].node_handle = subs[s].node}}

\* What the task of subscription s dereferences when it runs: it was given a
\* clone of the Doc, the callback function pointers and the userdata address,
\* and no handle
TaskDerefs(s) == {}

\* iroh_doc_subscribe(doc_handle, callback): spawns the task on the runtime of
\* the wrapper's node and returns a boxed wrapper holding the sender.
iroh_doc_subscribe(doc_handle) ==
    /\ \E s \in SubHandles : subs[s].handle = "none"
    /\ Call("iroh_doc_subscribe", doc_handle, <<>>,
        IF doc_handle = NULL THEN Failure("doc_handle cannot be null")
        ELSE LET wrapper == docs[doc_handle] IN
             [Same EXCEPT
                !.subs = [subs EXCEPT ![FreshSub] =
                            [NoSub EXCEPT !.handle = "live", !.cancel_tx = "some",
                                          !.pc = "subscribing",
                                          !.node = wrapper.node_handle,
                                          !.ns = wrapper.ns]],
                !.ret = FreshSub])

\* The task's `doc.subscribe().await`
TaskSubscribe(s, res) ==
    /\ subs[s].pc = "subscribing"
    /\ IF res = "ok"
       THEN /\ subs' = [subs EXCEPT ![s].pc = "looping"]
            /\ UNCHANGED heap
       ELSE /\ subs' = [subs EXCEPT ![s].pc = "done",
                                    ![s].log = Append(@, [fn |-> "on_failure", seq |-> 0])]
            /\ heap' = AllocAll(heap, <<"cstring">>, NULL).heap
    /\ UNCHANGED <<nodes, docs, clock, last, cbs>>

\* The event source of a subscription produces an event, an error or its end.
SourceEmit(s, item) ==
    /\ subs[s].pc = "looping"
    /\ \A i \in 1..Len(subs[s].stream) : subs[s].stream[i].kind = "event"
    /\ item.kind = "event" => subs[s].emitted < MaxEvents
    /\ subs' = [subs EXCEPT
                  ![s].stream = Append(@, [item EXCEPT !.seq = subs[s].emitted + 1]),
                  ![s].emitted = IF item.kind = "event" THEN @ + 1 ELSE @]
    /\ UNCHANGED <<nodes, docs, heap, clock, last, cbs>>

\* A faulty cancellation branch: on_complete without the `break`, so the
\* task goes round the loop again.
TaskCancelled_NoBreak(s) ==
    /\ subs[s].pc = "looping"
    /\ subs[s].chan = "sent"
    /\ Len(subs[s].log) < 2 * MaxEvents + 4
    /\ subs' = [subs EXCEPT ![s].log = Append(@, [fn |-> "on_complete", seq |-> 0])]
    /\ UNCHANGED <<nodes, docs, heap, clock, last, cbs>>

\* select!: the branch `_ = &mut cancel_rx` is taken
TaskCancelled(s) ==
    /\ subs[s].pc = "looping"
    /\ subs[s].chan = "sent"
    /\ subs' = [subs EXCEPT ![s].pc = "done", ![s].stream = <<>>,
                            ![s].log = Append(@, [fn |-> "on_complete", seq |-> 0])]
    /\ UNCHANGED <<nodes, docs, heap, clock, last, cbs>>

\* The stream.next() branch taking the newest item of the stream, not the oldest
TaskNext_Newest(s) ==
    /\ subs[s].pc = "looping"
    /\ subs[s].stream # <<>>
    /\ LET n == Len(subs[s].stream)
           item == subs[s].stream[n]
       IN
        IF item.kind = "event"
        THEN LET a == AllocAll(heap, convert_live_event_to_ffi(item.ev).owned, NULL) IN
             /\ subs' = [subs EXCEPT
                           ![s].stream = SubSeq(@, 1, n - 1),
                           ![s].log = Append(@, [fn |-> "on_event", seq |-> item.seq]),
                           ![s].held = @ \cup {IrohDocEvent(item.ev, a.ptrs)}]
             /\ heap' = a.heap
        ELSE IF item.kind = "err"
        THEN /\ subs' = [subs EXCEPT
                           ![s].pc = "done", ![s].stream = <<>>,
                           ![s].log = Append(@, [fn |-> "on_failure", seq |-> 0])]
             /\ heap' = AllocAll(heap, <<"cstring">>, NULL).heap
        ELSE /\ subs' = [subs EXCEPT
                           ![s].pc = "done", ![s].stream = <<>>,
                           ![s].log = Append(@, [fn |-> "on_complete", seq |-> 0])]
             /\ UNCHANGED heap
    /\ UNCHANGED <<nodes, docs, clock, last, cbs>>

\* select!: the branch `event = stream.next()` is taken. select! polls its
\* branches in random order, so this branch runs whenever the stream has an
\* item, whether or not the cancellation signal is there as well.
TaskNext(s) ==
    /\ subs[s].pc = "looping"
    /\ subs[s].stream # <<>>
    /\ LET item == Head(subs[s].stream) IN
        IF item.kind = "event"
        THEN LET a == AllocAll(heap, convert_live_event_to_ffi(item.ev).owned, NULL) IN
             /\ subs' = [subs EXCEPT
                           ![s].stream = Tail(@),
                           ![s].log = Append(@, [fn |-> "on_event", seq |-> item.seq]),
                           ![s].held = @ \cup {IrohDocEvent(item.ev, a.ptrs)}]
             /\ heap' = a.heap
        ELSE IF item.kind = "err"
        THEN /\ subs' = [subs EXCEPT
                           ![s].pc = "done", ![s].stream = <<>>,
                           ![s].log = Append(@, [fn |-> "on_failure", seq |-> 0])]
             /\ heap' = AllocAll(heap, <<"cstring">>, NULL).heap
        ELSE /\ subs' = [subs EXCEPT
                           ![s].pc = "done", ![s].stream = <<>>,
                           ![s].log = Append(@, [fn |-> "on_complete", seq |-> 0])]
             /\ UNCHANGED heap
    /\ UNCHANGED <<nodes, docs, clock, last, cbs>>

\* The wrapper's memory after it was freed, as a second
\* Box::from_raw(handle) finds it: the slot reads as None or as Some.
StaleSlots == {"none", "some"}

\* iroh_subscription_cancel reporting the completion itself when the task
\* is no longer there to take the signal
iroh_subscription_cancel_Completes(handle, stale) ==
    Call("iroh_subscription_cancel", handle, <<>>,
        IF handle = NULL THEN Same
        ELSE LET w == subs[handle]
                 slot == IF w.handle = "live" THEN w.cancel_tx ELSE stale
                 running == w.pc \in {"subscribing", "looping"}
             IN [Same EXCEPT !.subs = [subs EXCEPT ![handle] =
                    [w EXCEPT
                       !.cancel_tx = "none",
                       !.chan = IF slot = "some" /\ w.handle = "live" /\ running
                                THEN "sent" ELSE @,
                       !.signals = IF slot = "some" THEN @ + 1 ELSE @,
                       !.uaf = IF w.handle = "live" THEN @ ELSE @ + 1,
                       !.handle = "freed",
                       !.log = IF running
                               THEN Append(@, [fn |-> "cancel", seq |-> 0])
                               ELSE @ \o <<[fn |-> "cancel", seq |-> 0],
                                           [fn |-> "on_complete", seq |-> 0]>>]]])

\* iroh_subscription_cancel(handle). `stale` is what the slot reads as when
\* the handle was already freed (a use after free: any value).
iroh_subscription_cancel(handle, stale) ==
    Call("iroh_subscription_cancel", handle, <<>>,
        IF handle = NULL THEN Same
        ELSE LET w == subs[handle]
                 slot == IF w.handle = "live" THEN w.cancel_tx ELSE stale
                 running == w.pc \in {"subscribing", "looping"}
             IN [Same EXCEPT !.subs = [subs EXCEPT ![handle] =
                    [w EXCEPT
                       !.cancel_tx = "none",
                       !.chan = IF slot = "some" /\ w.handle = "live" /\ running
                                THEN "sent" ELSE @,
                       !.signals = IF slot = "some" THEN @ + 1 ELSE @,
                       !.uaf = IF w.handle = "live" THEN @ ELSE @ + 1,
                       !.handle = "freed",
                       !.log = Append(@, [fn |-> "cancel", seq |-> 0])]]])

\* ------------------------------------------------------------ the caller
\* The state after the library is loaded: no handle, nothing allocated.
Init ==
    /\ nodes = [h \in NodeHandles |-> NoNode]
    /\ docs = [d \in DocHandles |-> NoDoc]
    /\ subs = [s \in SubHandles |-> NoSub]
    /\ heap = [p \in Ptrs |-> FreeCell]
    /\ clock = 0
    /\ last = Idle
    /\ cbs = <<>>

\* Inputs. A byte is its pair of hex digits.
B1 == <<"0", "1">>
\* Borrowed buffers: null data (with either len), a zero len over memory, one byte
BytesArgs == {Borrowed("null", 0, <<>>), Borrowed("null", 1, <<>>),
              Borrowed("ptr", 0, <<B1>>), Borrowed("ptr", 1, <<B1>>)}
Results == {"ok", "err"}
\* and, of a stream, the failure after it has begun
StreamResults == Results \cup {"cut"}
TimedResults == {"ok", "err", "late", "stall"}
TimeoutArgs == {0, 5}

SecretA == [i \in 1..AuthorKeyLen |-> <<"0", "a">>]
ShortSecret == [i \in 1..(AuthorKeyLen - 1) |-> <<"0", "a">>]
SecretArgs == {SecretA}

PathArgs == {NullStr, BadUtf8, Str(<<"dir">>)}
RelayArgs == {NullStr, BadUtf8, Str(<<"https://", "relay">>), Str(<<"relay">>)}
TicketArgs == {NullStr, BadUtf8, Str(<<>>), Str(<<"garbage">>),
               Str(TicketToString(PeerId, Digest(<<B1>>), "Raw")),
               Str(TicketToString(PeerId, Digest(<<B1>>), "HashSeq")),
               Str(DocTicketToString(RemoteNamespace, "Write", PeerId))}
HexArgs == {NullStr, BadUtf8, Str(<<"x", "y">>), Str(<<"0">>),
            Str(HexEncode(ShortSecret)), Str(HexEncode(SecretA))}
HashArgs == {NullStr, BadUtf8, Str(<<"x", "y">>), Str(<<"0", "1">>),
             Str(HashToString(Digest(<<B1>>)))}
TagArgs == {NullStr, BadUtf8, Str(<<"pin">>)}

\* The caller passes null or a handle it holds: a live node, a live document
\* of a live node.
NodeArgs == {NULL} \cup LiveNodes
DocArgs == {NULL} \cup {d \in LiveDocs : docs[d].node_handle \in LiveNodes}
\* The events the caller holds, and the pointers in their fields
HeldEvents == UNION {subs[s].held : s \in SubHandles}
HeldPtrs == UNION {{e.entry, e.peer_id, e.content_hash} : e \in HeldEvents}
\* A pointer the caller owns, of the kind the free operation takes, or null; the
\* fields of an event are released with the event
PtrArgs(kind) ==
    {NULL} \cup {p \in Ptrs \ HeldPtrs : heap[p] = [kind |-> kind, owner |-> NULL]}

NodeNext ==
    \/ \E sp \in PathArgs, re \in BOOLEAN, url \in RelayArgs, de \in BOOLEAN, res \in Results :
          /\ \E h \in NodeHandles : nodes[h].status = "none"
          /\ iroh_node_create([storage_path |-> sp, relay_enabled |-> re,
                               custom_relay_url |-> url, docs_enabled |-> de], res)
    \/ \E h \in NodeArgs, res \in Results : iroh_node_destroy(h, res)
    \/ \E h \in NodeArgs, res \in Results : iroh_node_close(h, res)
    \/ \E h \in NodeArgs, up \in BOOLEAN, ip \in BOOLEAN : iroh_node_info(h, up, ip)

BlobNext ==
    \/ \E h \in NodeArgs, b \in BytesArgs, res \in Results : iroh_put(h, b, res)
    \/ \E h \in NodeArgs, t \in TicketArgs, res \in Results : iroh_get(h, t, res)
    \/ \E h \in NodeArgs, b \in BytesArgs, ms \in TimeoutArgs, res \in TimedResults :
          iroh_put_with_options(h, b, ms, res)
    \/ \E h \in NodeArgs, t \in TicketArgs, ms \in TimeoutArgs, res \in TimedResults :
          iroh_get_with_options(h, t, ms, res)
    \/ \E t \in TicketArgs : iroh_validate_ticket(t)
    \/ \E h \in NodeArgs, t \in TagArgs, hs \in HashArgs, f \in BlobFormats, res \in Results :
          iroh_blob_tag_set(h, t, hs, f, res)
    \/ \E h \in NodeArgs, t \in TagArgs, res \in Results : iroh_blob_tag_delete(h, t, res)
    \/ \E h \in NodeArgs, hs \in HashArgs, f \in BlobFormats : iroh_blob_ticket_create(h, hs, f)

DocNext ==
    \/ \E x \in HexArgs : iroh_author_from_hex(x)
    \/ \E h \in NodeArgs, a \in SecretArgs, res \in Results : iroh_author_import(h, a, res)
    \/ \E h \in NodeArgs, res \in Results : DocsMade < MaxDocsMade /\ iroh_doc_create(h, res)
    \/ \E h \in NodeArgs, t \in TicketArgs, res \in Results :
          DocsMade < MaxDocsMade /\ iroh_doc_join(h, t, res)
    \/ \E d \in DocArgs, a \in SecretArgs, k \in BytesArgs, v \in BytesArgs, res \in Results :
          clock < MaxWrites /\ iroh_doc_set(d, a, k, v, res)
    \/ \E d \in DocArgs, k \in BytesArgs, res \in Results : iroh_doc_get(d, k, res)
    \/ \E d \in DocArgs, k \in BytesArgs, res \in StreamResults :
          iroh_doc_get_many(d, k, res)
    \/ \E d \in DocArgs, a \in SecretArgs, k \in BytesArgs, res \in Results :
          clock < MaxWrites /\ iroh_doc_del(d, a, k, res)
    \/ \E d \in DocArgs, m \in ShareModes, res \in Results : iroh_doc_share(d, m, res)
    \/ \E h \in NodeArgs, hs \in HashArgs, res \in Results : iroh_doc_read_content(h, hs, res)
    \/ \E d \in {NULL} \cup LiveDocs : iroh_doc_close(d)

\* The caller has taken the callbacks and the return value of its last call
Returned ==
    /\ last # Idle
    /\ last' = Idle
    /\ cbs' = <<>>
    /\ UNCHANGED <<nodes, docs, subs, heap, clock>>

FreeNext ==
    \/ \E p \in PtrArgs("cstring") : iroh_string_free(p)
    \/ \E p \in PtrArgs("bytes") : iroh_bytes_free(p)
    \/ \E p \in PtrArgs("entry") : iroh_doc_entry_free(p)

\* The exported operations called one after another from one thread, with
\* null arguments among the inputs.
Next ==
    \/ NodeNext
    \/ BlobNext
    \/ DocNext
    \/ FreeNext
    \/ Returned
    \/ iroh_doc_subscribe(NULL)
    \/ iroh_subscription_cancel(NULL, "none")

Spec == Init /\ [][Next]_vars

\* ------------------------------------------- the subscription protocol
\* What the event source of a document produces
EntryA == [ns |-> NamespaceToks[1], author |-> AuthorIdOf(SecretA), key |-> <<B1>>,
           hash |-> Digest(<<B1>>), len |-> 1, ts |-> 1]
Items == {[kind |-> "event", seq |-> 0, ev |-> [type |-> "InsertLocal", entry |-> EntryA]],
          [kind |-> "event", seq |-> 0, ev |-> [type |-> "NeighborUp", entry |-> EntryA]],
          [kind |-> "err", seq |-> 0, ev |-> [type |-> "none", entry |-> EntryA]],
          [kind |-> "end", seq |-> 0, ev |-> [type |-> "none", entry |-> EntryA]]}

DocsConfig == [storage_path |-> Str(<<"dir">>), relay_enabled |-> FALSE,
               custom_relay_url |-> NullStr, docs_enabled |-> TRUE]

\* A subscription handle the caller holds, or one it has already cancelled
\* (MaxStale further cancels of a freed handle are followed)
SubArgs == {NULL} \cup {s \in SubHandles : subs[s].handle = "live"}
                  \cup {s \in SubHandles : subs[s].handle = "freed" /\ subs[s].uaf < MaxStale}

TaskStep ==
    \/ \E s \in SubHandles, res \in Results : TaskSubscribe(s, res)
    \/ \E s \in SubHandles, item \in Items : SourceEmit(s, item)
    \/ \E s \in SubHandles : TaskCancelled(s)
    \/ \E s \in SubHandles : TaskNext(s)

\* One node with documents, its subscriptions and their tasks, the caller
\* cancelling, closing and destroying at any moment.
SubNext ==
    \/ /\ \E h \in NodeHandles : nodes[h].status = "none"
       /\ iroh_node_create(DocsConfig, "ok")
    \/ \E h \in LiveNodes : DocsMade < MaxDocsMade /\ iroh_doc_create(h, "ok")
    \/ \E d \in DocArgs : iroh_doc_subscribe(d)
    \/ TaskStep
    \/ \E h \in SubArgs, stale \in StaleSlots : iroh_subscription_cancel(h, stale)
    \/ \E d \in LiveDocs : iroh_doc_close(d)
    \/ \E h \in LiveNodes, res \in Results : iroh_node_destroy(h, res)
    \/ \E h \in LiveNodes, res \in Results : iroh_node_close(h, res)
    \/ \E p \in PtrArgs("cstring") : iroh_string_free(p)
    \/ Returned

SubSpec == Init /\ [][SubNext]_vars

\* ------------------------------------------------- the careful caller
\* What the event source produces here: events with every kind of field
OwnItems ==
    {[kind |-> "event", seq |-> 0, ev |-> [type |-> "InsertRemote", entry |-> EntryA]],
     [kind |-> "event", seq |-> 0, ev |-> [type |-> "ContentReady", entry |-> EntryA]],
     [kind |-> "event", seq |-> 0, ev |-> [type |-> "PendingContentReady", entry |-> EntryA]],
     [kind |-> "err", seq |-> 0, ev |-> [type |-> "none", entry |-> EntryA]]}
OwnKeys == {Borrowed("null", 0, <<>>), Borrowed("ptr", 1, <<B1>>)}
OwnValue == Borrowed("ptr", 1, <<B1>>)
OwnDocs == {d \in LiveDocs : docs[d].node_handle \in LiveNodes}

OwnCalls ==
    \/ /\ \E h \in NodeHandles : nodes[h].status = "none"
       /\ iroh_node_create(DocsConfig, "ok")
    \/ \E h \in LiveNodes : iroh_node_info(h, TRUE, TRUE)
    \/ \E h \in LiveNodes : iroh_author_import(h, SecretA, "ok")
    \/ \E h \in LiveNodes, res \in Results : DocsMade < MaxDocsMade /\ iroh_doc_create(h, res)
    \/ \E d \in OwnDocs, k \in OwnKeys :
          clock < MaxWrites /\ iroh_doc_set(d, SecretA, k, OwnValue, "ok")
    \/ \E d \in OwnDocs, k \in OwnKeys : iroh_doc_get(d, k, "ok")
    \/ \E d \in OwnDocs, k \in OwnKeys, res \in StreamResults : iroh_doc_get_many(d, k, res)
    \/ \E h \in LiveNodes, res \in Results :
          iroh_doc_read_content(h, Str(HashToString(Digest(<<B1>>))), res)
    \/ \E d \in OwnDocs : iroh_doc_subscribe(d)
    \/ \E h \in {s \in SubHandles : subs[s].handle = "live"} :
          iroh_subscription_cancel(h, "none")

OwnTasks ==
    \/ \E s \in SubHandles, res \in Results : TaskSubscribe(s, res)
    \/ \E s \in SubHandles, item \in OwnItems : SourceEmit(s, item)
    \/ \E s \in SubHandles : TaskCancelled(s)
    \/ \E s \in SubHandles : TaskNext(s)

\* The caller passes what it received, once, to the matching free operation
OwnFrees ==
    \/ \E p \in PtrArgs("cstring") \ {NULL} : iroh_string_free(p)
    \/ \E p \in PtrArgs("bytes") \ {NULL} : iroh_bytes_free(p)
    \/ \E p \in PtrArgs("entry") \ {NULL} : iroh_doc_entry_free(p)
    \/ \E e \in HeldEvents : iroh_doc_event_free(e)

\* One node with documents and a subscription, used by a caller that frees
\* everything it is handed, each allocation once.
OwnNext ==
    \/ OwnCalls
    \/ OwnTasks
    \/ OwnFrees
    \/ Returned

OwnSpec == Init /\ [][OwnNext]_vars

\* ------------------------------------------------- blobs and their tickets
\* The tickets of the puts the caller can make, and one of a peer's blob
OwnTickets == {Str(TicketToString(NodeIdOf(h), Digest(CopyBytes(b)), "Raw")) :
                  h \in LiveNodes, b \in BytesArgs}
StoreTickets == OwnTickets \cup {Str(TicketToString(PeerId, Digest(<<B1>>), "Raw"))}
StoreHashes == {Str(HashToString(Digest(CopyBytes(b)))) : b \in BytesArgs}
StoreConfigs == {[DocsConfig EXCEPT !.docs_enabled = de] : de \in BOOLEAN}

StoreCalls ==
    \/ \E c \in StoreConfigs, res \in Results :
          /\ \E h \in NodeHandles : nodes[h].status = "none"
          /\ iroh_node_create(c, res)
    \/ \E h \in LiveNodes, up \in BOOLEAN : iroh_node_info(h, up, TRUE)
    \/ \E h \in LiveNodes, b \in BytesArgs, res \in Results : iroh_put(h, b, res)
    \/ \E h \in LiveNodes, t \in StoreTickets, res \in Results : iroh_get(h, t, res)
    \/ \E t \in StoreTickets : iroh_validate_ticket(t)
    \/ \E h \in LiveNodes, hs \in StoreHashes, f \in BlobFormats :
          iroh_blob_ticket_create(h, hs, f)
    \/ \E h \in LiveNodes, res \in Results : DocsMade < MaxDocsMade /\ iroh_doc_create(h, res)
    \/ \E h \in LiveNodes, res \in Results : iroh_node_close(h, res)

StoreFrees ==
    \/ \E p \in PtrArgs("cstring") \ {NULL} : iroh_string_free(p)
    \/ \E p \in PtrArgs("bytes") \ {NULL} : iroh_bytes_free(p)

\* One node and its blob store, used with well-formed arguments: blobs are
\* put, tickets are validated and fetched, the node is closed and reopened.
StoreNext ==
    \/ StoreCalls
    \/ StoreFrees
    \/ Returned

StoreSpec == Init /\ [][StoreNext]_vars

\* ------------------------------------------- documents as key-value stores
\* Two authors, three keys of which the first is a prefix of the second, two
\* values
B2 == <<"0", "2">>
SecretB == [i \in 1..AuthorKeyLen |-> <<"0", "b">>]
KvSecrets == {SecretA, SecretB}
KvKeys == {Borrowed("ptr", 1, <<B1>>), Borrowed("ptr", 2, <<B1, B2>>),
           Borrowed("ptr", 1, <<B2>>)}
KvValues == {Borrowed("ptr", 1, <<B1>>), Borrowed("ptr", 1, <<B2>>)}
KvHashes == {Str(HashToString(Digest(CopyBytes(v)))) : v \in KvValues}

KvCalls ==
    \/ /\ \E h \in NodeHandles : nodes[h].status = "none"
       /\ iroh_node_create(DocsConfig, "ok")
    \/ \E h \in LiveNodes, a \in KvSecrets : iroh_author_import(h, a, "ok")
    \/ \E h \in LiveNodes : DocsMade < MaxDocsMade /\ iroh_doc_create(h, "ok")
    \/ \E d \in OwnDocs, a \in KvSecrets, k \in KvKeys, v \in KvValues :
          iroh_doc_set(d, a, k, v, "ok")
    \/ \E d \in OwnDocs, a \in KvSecrets, k \in KvKeys : iroh_doc_del(d, a, k, "ok")
    \/ \E d \in OwnDocs, k \in KvKeys : iroh_doc_get(d, k, "ok")
    \/ \E d \in OwnDocs, k \in KvKeys : iroh_doc_get_many(d, k, "ok")
    \/ \E h \in LiveNodes, hs \in KvHashes : iroh_doc_read_content(h, hs, "ok")

\* One document written by two authors and read back, every service
\* answering, the caller freeing what it is handed.
KvNext ==
    \/ KvCalls
    \/ \E p \in PtrArgs("cstring") \ {NULL} : iroh_string_free(p)
    \/ \E p \in PtrArgs("bytes") \ {NULL} : iroh_bytes_free(p)
    \/ \E p \in PtrArgs("entry") \ {NULL} : iroh_doc_entry_free(p)
    \/ Returned

KvSpec == Init /\ [][KvNext]_vars

\* ------------------------------------------ the caller that keeps handles
\* The node handles with no document handle of theirs in the caller's hands
Docless == {h \in LiveNodes : \A d \in LiveDocs : docs[d].node_handle # h}
LiveSubs == {s \in SubHandles : subs[s].handle = "live"}

LifeCalls ==
    \/ /\ \E h \in NodeHandles : nodes[h].status = "none"
       /\ iroh_node_create(DocsConfig, "ok")
    \/ \E h \in LiveNodes : iroh_doc_create(h, "ok")
    \/ \E d \in OwnDocs : iroh_doc_share(d, "Read", "ok")
    \/ \E d \in OwnDocs : iroh_doc_subscribe(d)
    \/ \E s \in LiveSubs : iroh_subscription_cancel(s, "none")
    \/ \E d \in OwnDocs : iroh_doc_close(d)
    \/ \E h \in Docless, res \in Results : iroh_node_destroy(h, res)
    \/ \E h \in Docless, res \in Results : iroh_node_close(h, res)

\* A caller that passes every handle it consumed to nothing, and closes the
\* documents of a node before it destroys the node; subscriptions run and
\* are cancelled, or not, at any moment.
LifeNext ==
    \/ LifeCalls
    \/ TaskStep
    \/ \E p \in PtrArgs("cstring") \ {NULL} : iroh_string_free(p)
    \/ Returned

LifeSpec == Init /\ [][LifeNext]_vars

\* The longest download stream of a progress download
MaxItems == 3

\* The byte counts a progress item reports
ProgressCounts == {1, 2}
DownloadItems ==
    {ProgressItem(n) : n \in ProgressCounts}
        \cup {PartComplete, ErrorItem, DownloadErrorItem, TryProvider}
DownloadStreams == UNION {[1..n -> DownloadItems] : n \in 0..MaxItems}
ProgressTickets == TicketArgs \cup StoreTickets

ProgressCalls ==
    \/ /\ \E h \in NodeHandles : nodes[h].status = "none"
       /\ iroh_node_create(DocsConfig, "ok")
    \/ \E h \in LiveNodes, b \in BytesArgs : iroh_put(h, b, "ok")
    \/ \E h \in NodeArgs, t \in ProgressTickets, start \in Results,
          items \in DownloadStreams, read \in Results :
          iroh_get_with_progress(h, t, start, items, read)

\* One node fetching blobs with progress reports, over every download stream
\* of up to MaxItems items
ProgressNext ==
    \/ ProgressCalls
    \/ StoreFrees
    \/ Returned

ProgressSpec == Init /\ [][ProgressNext]_vars

\* ------------------------------------------------------------- properties
SingleResultOps ==
    {"iroh_node_create", "iroh_put", "iroh_get", "iroh_put_with_options",
     "iroh_get_with_options", "iroh_node_info", "iroh_author_from_hex",
     "iroh_author_import", "iroh_doc_create", "iroh_doc_join", "iroh_doc_set",
     "iroh_doc_get", "iroh_doc_del", "iroh_doc_share", "iroh_doc_read_content",
     "iroh_blob_tag_set", "iroh_blob_tag_delete", "iroh_blob_ticket_create"}

\* The callback that reports the success of a single-result operation
SuccessFn(op) ==
    IF op \in {"iroh_author_import", "iroh_blob_tag_set", "iroh_blob_tag_delete"}
    THEN "on_complete" ELSE "on_success"

\* The step is a call of an exported function
IsCall == last = Idle /\ last' # Idle

\* C1: a call of a single-result operation, whatever its arguments and
\* whatever the native outcome, invokes exactly one callback, which is the
\* operation's success callback or its failure callback; `cbs` holds every
\* callback of the call, so none follows the one.
C1_ExactlyOneCallback ==
    last.op \in SingleResultOps =>
        /\ Len(cbs) = 1
        /\ cbs[1].fn \in {SuccessFn(last.op), "on_failure"}

\* a document was joined (one success), after a call that had failed
C1_Witness ==
    /\ last.op = "iroh_doc_join"
    /\ last.handle # NULL
    /\ Len(cbs) = 1
    /\ cbs[1].fn = "on_success"
    /\ last.native

Terminal(e) == e.fn \in {"on_complete", "on_failure"}

\* C2: in the callbacks of a subscription a terminal callback (on_complete
\* or on_failure) is followed by no callback at all: at most one terminal,
\* never both kinds, no on_event after it.
C2_TerminalIsLast ==
    \A s \in SubHandles :
        \A i, j \in 1..Len(subs[s].log) :
            (i < j /\ Terminal(subs[s].log[i])) => subs[s].log[j].fn = "cancel"

\* an event was delivered, the subscription was cancelled while the source
\* had a failure to report, and the task ended
C2_Witness ==
    \E s \in SubHandles :
        /\ subs[s].pc = "done"
        /\ subs[s].signals = 1
        /\ \E i, j, k \in 1..Len(subs[s].log) :
            /\ i < j /\ j < k
            /\ subs[s].log[i].fn = "on_event"
            /\ subs[s].log[j].fn = "cancel"
            /\ Terminal(subs[s].log[k])

Terminals(s) == {i \in 1..Len(subs[s].log) : Terminal(subs[s].log[i])}

\* C3: a subscription whose task is over, by returning or because the
\* runtime it ran on is gone, has had exactly one terminal callback.
C3_TaskOverHasTerminal ==
    \A s \in SubHandles :
        subs[s].pc \in {"done", "dropped"} => Cardinality(Terminals(s)) = 1

\* C4: cancelling is idempotent: no subscription is ever sent more than one
\* cancellation signal, and no cancel reads or frees a wrapper that an
\* earlier cancel released.
C4_CancelIdempotent ==
    \A s \in SubHandles : subs[s].signals <= 1 /\ subs[s].uaf = 0

\* C5: once iroh_subscription_cancel has returned for a subscription, no
\* on_event is invoked for it.
C5_NoEventAfterCancel ==
    \A s \in SubHandles :
        \A i, j \in 1..Len(subs[s].log) :
            (i < j /\ subs[s].log[i].fn = "cancel") => subs[s].log[j].fn # "on_event"

\* C6: once iroh_subscription_cancel has returned for a subscription, the
\* subscription does not end with on_failure: a cancellation is a completion.
C6_CancelNeverFails ==
    \A s \in SubHandles :
        \A i, j \in 1..Len(subs[s].log) :
            (i < j /\ subs[s].log[i].fn = "cancel") => subs[s].log[j].fn # "on_failure"

\* The operations that take a handle and report through a callback
HandleOps ==
    {"iroh_put", "iroh_get", "iroh_put_with_options", "iroh_get_with_options",
     "iroh_node_info", "iroh_node_close", "iroh_author_import", "iroh_doc_create",
     "iroh_doc_join", "iroh_doc_set", "iroh_doc_get", "iroh_doc_del",
     "iroh_doc_share", "iroh_doc_read_content", "iroh_doc_subscribe",
     "iroh_blob_tag_set", "iroh_blob_tag_delete", "iroh_blob_ticket_create"}

\* C7: a null handle given to an operation other than a releasing one is
\* reported through the failure callback, once, with no native operation and
\* no success or completion callback.
C7_NullHandleFails ==
    (last.op \in HandleOps /\ last.handle = NULL) =>
        /\ Len(cbs) = 1
        /\ cbs[1].fn = "on_failure"
        /\ ~last.native

NullReleaseOps ==
    {"iroh_node_destroy", "iroh_doc_close", "iroh_subscription_cancel",
     "iroh_string_free", "iroh_bytes_free", "iroh_doc_entry_free"}

\* C8: a releasing operation given null invokes no callback, frees nothing
\* and leaves every node, document, subscription and allocation as it was.
C8_NullReleaseIsNoOp ==
    [][(IsCall /\ last'.op \in NullReleaseOps /\ last'.handle = NULL) =>
            /\ cbs' = <<>>
            /\ UNCHANGED <<nodes, docs, subs, heap, clock>>]_vars

\* iroh_string_free(null) returned while the caller holds a string and a node
C8_Witness ==
    /\ last.op = "iroh_string_free"
    /\ last.handle = NULL
    /\ \E p \in Ptrs : heap[p].kind = "cstring"
    /\ LiveNodes # {}

\* The required string arguments of an operation, in the order of `strs`
StrKinds(op) ==
    IF op = "iroh_node_create" THEN <<"path">>
    ELSE IF op \in {"iroh_get", "iroh_get_with_options", "iroh_doc_join"} THEN <<"ticket">>
    ELSE IF op = "iroh_author_from_hex" THEN <<"secret_hex">>
    ELSE IF op \in {"iroh_doc_read_content", "iroh_blob_ticket_create"} THEN <<"hash">>
    ELSE IF op = "iroh_blob_tag_set" THEN <<"name", "hash">>
    ELSE IF op = "iroh_blob_tag_delete" THEN <<"name">>
    ELSE <<>>

\* null, not UTF-8, or hex/hash text that does not decode
BadString(kind, str) ==
    \/ str.null
    \/ ~str.utf8
    \/ kind = "secret_hex"
          /\ (~HexDecode(str.text).ok \/ Len(HexDecode(str.text).bytes) # AuthorKeyLen)
    \/ kind = "hash" /\ ~ParseHash(str.text).ok

BadRequired(op, strs) ==
    \E i \in 1..Len(StrKinds(op)) : BadString(StrKinds(op)[i], strs[i])

\* C9: a call with a null or malformed required string invokes the failure
\* callback and nothing else, reaches no native service, and leaves the
\* nodes, documents, subscriptions and the clock of the docs engine unchanged.
C9_BadStringFailsAtBoundary ==
    [][(IsCall /\ BadRequired(last'.op, last'.strs)) =>
            /\ Len(cbs') = 1
            /\ cbs'[1].fn = "on_failure"
            /\ ~last'.native
            /\ UNCHANGED <<nodes, docs, subs, clock>>]_vars

\* iroh_blob_tag_set on a live node that holds a tag, with hash text that is
\* no hash
C9_Witness ==
    /\ last.op = "iroh_blob_tag_set"
    /\ last.handle # NULL
    /\ ~last.strs[1].null /\ last.strs[1].utf8
    /\ ~last.strs[2].null /\ last.strs[2].utf8
    /\ ~ParseHash(last.strs[2].text).ok
    /\ nodes[last.handle].tags # {}

\* C10: iroh_validate_ticket invokes on_complete once and nothing else;
\* is_valid is true exactly when the text parses as a blob ticket, then hash
\* and node_id are strings, otherwise both are null and is_recursive is false.
C10_ValidateNeverFails ==
    last.op = "iroh_validate_ticket" =>
        /\ Len(cbs) = 1
        /\ cbs[1].fn = "on_complete"
        /\ LET r == cbs[1].arg
               t == last.strs[1]
           IN /\ r.is_valid <=> (~t.null /\ t.utf8 /\ ParseBlobTicket(t.text).ok)
              /\ r.is_valid => (~r.hash.null /\ ~r.node_id.null)
              /\ ~r.is_valid => (r.hash.null /\ r.node_id.null /\ ~r.is_recursive)

\* a ticket of a hash sequence was validated
C10_Witness ==
    /\ last.op = "iroh_validate_ticket"
    /\ Len(cbs) = 1
    /\ cbs[1].arg.is_valid
    /\ cbs[1].arg.is_recursive
    /\ Len(cbs[1].ptrs) = 2

\* The operations the docs-disabled guard is stated for
DocsGuardedOps == {"iroh_author_import", "iroh_doc_create", "iroh_doc_join",
                   "iroh_doc_read_content"}

\* C11: a call of iroh_author_import, iroh_doc_create, iroh_doc_join or
\* iroh_doc_read_content on a live node created with docs_enabled = false,
\* whatever its other arguments, invokes the failure callback once with the
\* error "docs not enabled on this node" and reaches no native service.
C11_DocsDisabledGuard ==
    (/\ last.op \in DocsGuardedOps
     /\ last.handle \in NodeHandles
     /\ nodes[last.handle].status = "live"
     /\ ~nodes[last.handle].docs_enabled)
    => /\ Len(cbs) = 1
       /\ cbs[1].fn = "on_failure"
       /\ cbs[1].arg = "docs not enabled on this node"
       /\ ~last.native

\* C12: a call of iroh_node_destroy or iroh_node_close with a non-null handle
\* takes a live node and leaves it torn down (the handle is consumed, once),
\* whether the shutdown succeeded or failed; iroh_node_close reports through
\* exactly one of on_complete and on_failure, iroh_node_destroy invokes no
\* callback and drops the error.
C12_TeardownConsumesHandle ==
    [][(IsCall /\ last'.op \in {"iroh_node_destroy", "iroh_node_close"}
               /\ last'.handle # NULL)
       => /\ nodes[last'.handle].status = "live"
          /\ nodes'[last'.handle].status = "freed"
          /\ last'.op = "iroh_node_destroy" => cbs' = <<>>
          /\ last'.op = "iroh_node_close" =>
                /\ Len(cbs') = 1
                /\ cbs'[1].fn \in {"on_complete", "on_failure"}]_vars

\* a close whose shutdown failed: the failure is reported and the node is gone
C12_Witness ==
    /\ last.op = "iroh_node_close"
    /\ last.handle # NULL
    /\ Len(cbs) = 1
    /\ cbs[1].fn = "on_failure"
    /\ nodes[last.handle].status = "freed"

\* The callbacks of a call that reported a timeout and nothing else
TimedOut(c) ==
    /\ Len(c) = 1
    /\ c[1].fn = "on_failure"
    /\ c[1].arg = "Operation timed out"
\* The step is a call of `op` on `handle` that invoked the callbacks of `out`
CallOf(op, handle, out) ==
    /\ IsCall
    /\ last'.op = op
    /\ last'.handle = handle
    /\ Len(cbs') = Len(out.cbs)
    /\ \A i \in 1..Len(cbs') : cbs'[i].fn = out.cbs[i].fn
\* The step is iroh_put_with_options / iroh_get_with_options with these inputs
PutWithOptions(h, b, ms, res) ==
    /\ CallOf("iroh_put_with_options", h, iroh_put_with_options_body(h, b, ms, res))
    /\ iroh_put_with_options(h, b, ms, res)
GetWithOptions(h, t, ms, res) ==
    /\ CallOf("iroh_get_with_options", h, iroh_get_with_options_body(h, t, ms, res))
    /\ iroh_get_with_options(h, t, ms, res)
\* The timeouts that set a timer, the tickets that parse
Timers == TimeoutArgs \ {0}
GoodTickets == {t \in TicketArgs : ~t.null /\ t.utf8 /\ ParseBlobTicket(t.text).ok}

\* C13: iroh_put_with_options and iroh_get_with_options with timeout_ms > 0,
\* when the store or the download never answers, still return, and the call
\* invokes on_failure exactly once with the timeout error and on_success never.
C13_StalledCallTimesOut ==
    /\ [](\A h \in LiveNodes, ms \in Timers :
            /\ \A b \in BytesArgs : iroh_put_with_options_returns(h, b, ms, "stall")
            /\ \A t \in GoodTickets : iroh_get_with_options_returns(h, t, ms, "stall"))
    /\ [][\A h \in LiveNodes, ms \in Timers :
            /\ \A b \in BytesArgs : PutWithOptions(h, b, ms, "stall") => TimedOut(cbs')
            /\ \A t \in GoodTickets : GetWithOptions(h, t, ms, "stall") => TimedOut(cbs')]_vars

\* a put that timed out on a node whose store never took the bytes
C13_Witness ==
    /\ last.op = "iroh_put_with_options"
    /\ last.handle # NULL
    /\ TimedOut(cbs)
    /\ nodes[last.handle].status = "live"
    /\ nodes[last.handle].blobs = {}

Untimed(res) == IF res = "err" THEN "err" ELSE "ok"

\* C15: with timeout_ms = 0 no timer is set: the call never reports the timeout
\* error and, for every handle, buffer or ticket and every native outcome after
\* which it returns, it invokes the callback iroh_put / iroh_get invokes, with
\* the same result, and leaves the same state.
C15_ZeroIsNoTimeout ==
    \A h \in NodeArgs, res \in TimedResults :
        /\ \A b \in BytesArgs :
              /\ h # NULL => ~put_with_timeout(h, CopyBytes(b), 0, res).timed_out
              /\ iroh_put_with_options_returns(h, b, 0, res)
                    => iroh_put_with_options_body(h, b, 0, res)
                           = iroh_put_body(h, b, Untimed(res))
        /\ \A t \in TicketArgs :
              /\ (h # NULL /\ ~t.null /\ t.utf8)
                    => ~get_with_timeout(h, t.text, 0, res).timed_out
              /\ iroh_get_with_options_returns(h, t, 0, res)
                    => iroh_get_with_options_body(h, t, 0, res)
                           = iroh_get_body(h, t, Untimed(res))

\* a put with options that succeeded with the ticket iroh_put gives
C15_Witness ==
    /\ last.op = "iroh_put_with_options"
    /\ last.handle # NULL
    /\ Len(cbs) = 1
    /\ cbs[1].fn = "on_success"
    /\ \E b \in BytesArgs :
          cbs[1].arg = TicketToString(NodeIdOf(last.handle), Digest(CopyBytes(b)), "Raw")

\* The operations that run one native action under block_on
BlockingOps ==
    {"iroh_put", "iroh_get", "iroh_node_info", "iroh_doc_create", "iroh_doc_join",
     "iroh_doc_set", "iroh_doc_get", "iroh_doc_del", "iroh_doc_share",
     "iroh_doc_read_content", "iroh_author_import", "iroh_blob_tag_set",
     "iroh_blob_tag_delete"}

StreamingOps == {"iroh_doc_get_many", "iroh_doc_subscribe"}

\* C17: a streaming operation returns at once: no callback of it is invoked
\* on the calling thread between entry and return (all of them come from the
\* task it spawned).
C17_StreamingOffCallingThread ==
    last.op \in StreamingOps => cbs = <<>>

\* The on_event callbacks of a subscription, and all its callbacks, in order
IsOnEvent(e) == e.fn = "on_event"
IsCallback(e) == e.fn # "cancel"
Delivered(s) == SelectSeq(subs[s].log, IsOnEvent)
Callbacks(s) == SelectSeq(subs[s].log, IsCallback)

\* C18: the on_event callbacks of a subscription carry the events of its
\* source in the order of emission: the i-th delivery is the i-th event
\* emitted (none reordered, repeated or skipped), the events not yet delivered
\* wait in that order, and a terminal callback has no callback after it.
C18_EventsInEmissionOrder ==
    \A s \in SubHandles :
        /\ \A i \in 1..Len(Delivered(s)) : Delivered(s)[i].seq = i
        /\ Len(Delivered(s)) <= subs[s].emitted
        /\ \A i \in 1..Len(subs[s].stream) :
              subs[s].stream[i].kind = "event"
                  => subs[s].stream[i].seq = Len(Delivered(s)) + i
        /\ \A i \in 1..Len(Callbacks(s)) :
              Terminal(Callbacks(s)[i]) => i = Len(Callbacks(s))

\* two events were delivered and then the terminal
C18_Witness ==
    \E s \in SubHandles :
        /\ Len(Delivered(s)) = 2
        /\ Len(Callbacks(s)) = 3
        /\ Terminal(Callbacks(s)[3])

\* The allocations that go with the one at `p`: the fields of a boxed entry
Group(p) == {p} \cup {q \in Ptrs : heap[q].owner = p}
\* The allocations of an event: its fields and what its entry owns
EventGroup(e) ==
    UNION {Group(p) : p \in {e.entry, e.peer_id, e.content_hash} \ {NULL}}
\* What the caller released in this step, if the step is a call of a free operation
Released ==
    IF ~IsCall THEN {}
    ELSE IF last'.op \in {"iroh_string_free", "iroh_bytes_free", "iroh_doc_entry_free"}
    THEN Group(last'.handle)
    ELSE IF last'.op = "iroh_doc_event_free"
    THEN UNION {EventGroup(e) : e \in HeldEvents \ UNION {subs'[s].held : s \in SubHandles}}
    ELSE {}
\* No allocation was returned to the allocator twice
NoDoubleFree == \A p \in Ptrs : heap[p].kind # "double-freed"
\* Every allocation can still be released: it is a string, a buffer or an
\* entry of the caller, or a field of an entry that is still allocated
NoOrphans ==
    \A p \in Ptrs :
        heap[p].kind # "free"
            => /\ heap[p].kind \in {"cstring", "bytes", "entry"}
               /\ heap[p].owner # NULL => heap[heap[p].owner].kind = "entry"
\* What the caller holds is allocated: the pointers of the callbacks of the
\* call that just ran, and the fields of the events it has not freed
HeldIntact ==
    /\ \A i \in 1..Len(cbs) : \A k \in 1..Len(cbs[i].ptrs) :
          heap[cbs[i].ptrs[k]].kind \in {"cstring", "bytes", "entry"}
    /\ \A e \in HeldEvents :
          /\ e.entry # NULL => heap[e.entry].kind = "entry"
          /\ e.peer_id # NULL => heap[e.peer_id].kind = "cstring"
          /\ e.content_hash # NULL => heap[e.content_hash].kind = "cstring"

\* C19: with a caller that passes everything it received to the matching
\* free operation once: no allocation is freed twice; every allocation stays
\* releasable and what the caller holds stays allocated; a free operation
\* releases the whole of what it is given (an entry with its key and hash, an
\* event with its entry, peer_id and content_hash) and nothing else; and no
\* other step of the core, in a call or in a task, changes an allocation that
\* was handed out.
C19_OwnershipSafety ==
    /\ [](NoDoubleFree /\ NoOrphans /\ HeldIntact)
    /\ [][\A p \in Ptrs :
            /\ (p \in Released /\ heap[p].kind # "free") => heap'[p] = FreeCell
            /\ (p \notin Released /\ heap[p].kind # "free") => heap'[p] = heap[p]]_vars

\* two events were delivered, the caller has freed the last of what it held,
\* and nothing is left allocated
C19_Witness ==
    /\ last.op = "iroh_doc_event_free"
    /\ \A p \in Ptrs : heap[p] = FreeCell
    /\ HeldEvents = {}
    /\ \E s \in SubHandles : Len(Delivered(s)) = 2

\* The buffers with null data or with len 0, and an empty input to compare
\* with: a valid pointer to no bytes
EmptyForms == {b \in BytesArgs : b.data = "null" \/ b.len = 0}
EmptyBuf == Borrowed("ptr", 0, <<>>)
\* The other buffer of iroh_doc_set: empty or one byte
OtherBufs == {EmptyBuf, Borrowed("ptr", 1, <<B1>>)}

\* C20: in iroh_put, iroh_put_with_options, iroh_doc_set (key and value),
\* iroh_doc_get, iroh_doc_get_many and iroh_doc_del, a buffer with null data
\* (whatever its len) or with len 0 (whatever its data) does what the empty
\* input does, for every other argument and native outcome: the same callbacks
\* with the same results and the same state; and with a non-null handle the
\* call reaches the native service, so what it reports is the outcome of the
\* service and not a usage error.
C20_NullOrZeroLenIsEmpty ==
    \A b \in EmptyForms :
        /\ \A h \in NodeArgs, res \in Results :
              /\ iroh_put_body(h, b, res) = iroh_put_body(h, EmptyBuf, res)
              /\ h # NULL => iroh_put_body(h, b, res).native
        /\ \A h \in NodeArgs, ms \in TimeoutArgs, res \in TimedResults :
              /\ iroh_put_with_options_body(h, b, ms, res)
                    = iroh_put_with_options_body(h, EmptyBuf, ms, res)
              /\ h # NULL => iroh_put_with_options_body(h, b, ms, res).native
        /\ \A d \in DocArgs, a \in SecretArgs, o \in OtherBufs, res \in Results :
              /\ iroh_doc_set_body(d, a, b, o, res) = iroh_doc_set_body(d, a, EmptyBuf, o, res)
              /\ iroh_doc_set_body(d, a, o, b, res) = iroh_doc_set_body(d, a, o, EmptyBuf, res)
              /\ iroh_doc_del_body(d, a, b, res) = iroh_doc_del_body(d, a, EmptyBuf, res)
              /\ d # NULL => /\ iroh_doc_set_body(d, a, b, o, res).native
                             /\ iroh_doc_set_body(d, a, o, b, res).native
                             /\ iroh_doc_del_body(d, a, b, res).native
        /\ \A d \in DocArgs, res \in StreamResults :
              /\ iroh_doc_get_body(d, b, res) = iroh_doc_get_body(d, EmptyBuf, res)
              /\ iroh_doc_get_many_body(d, b, res) = iroh_doc_get_many_body(d, EmptyBuf, res)
              /\ d # NULL => /\ iroh_doc_get_body(d, b, res).native
                             /\ iroh_doc_get_many_body(d, b, res).native

\* a document write under the empty key went through: the entry is there
C20_Witness ==
    /\ last.op = "iroh_doc_set"
    /\ last.handle # NULL
    /\ Len(cbs) = 1
    /\ cbs[1].fn = "on_success"
    /\ \E e \in nodes[docs[last.handle].node_handle].entries : e.key = <<>>

\* Core-owned bytes: every element is a byte value (two hex digits), none is
\* a pointer into the caller's memory
OwnedBytes(v) ==
    \A i \in 1..Len(v) :
        /\ v[i][1] \in HexDigits
        /\ v[i][2] \in HexDigits

PutOk(h, b) ==
    /\ CallOf("iroh_put", h, iroh_put_body(h, b, "ok"))
    /\ iroh_put(h, b, "ok")
\* The ticket that put hands to on_success
TicketOfPut(h, b) == iroh_put_body(h, b, "ok").cbs[1].arg

\* C22: whatever bytes are put, the empty sequence included, the ticket a
\* successful put returns, given to get on the same node (the store answering),
\* makes get succeed with exactly those bytes.
C22_BlobRoundTrip ==
    [][\A h \in LiveNodes, b \in BytesArgs :
          PutOk(h, b) =>
              (iroh_get_body(h, Str(TicketOfPut(h, b)), "ok").cbs)'
                  = <<Cb("on_success", IF b.data = "null" \/ b.len = 0 THEN <<>>
                                       ELSE SubSeq(b.mem, 1, b.len), <<"bytes">>)>>]_vars

\* a get of the node's own ticket for the empty blob has returned the empty
\* sequence
C22_Witness ==
    /\ last.op = "iroh_get"
    /\ last.handle \in LiveNodes
    /\ ParseBlobTicket(last.strs[1].text).node_id = NodeIdOf(last.handle)
    /\ Len(cbs) = 1
    /\ cbs[1].fn = "on_success"
    /\ cbs[1].arg = <<>>

\* C23: the ticket a successful put returns is not empty, iroh_validate_ticket
\* finds it valid, and the node id in it is the node id that the node's info
\* reports.
C23_PutTicketWellFormed ==
    (last.op = "iroh_put" /\ Len(cbs) = 1 /\ cbs[1].fn = "on_success") =>
        LET t == cbs[1].arg
            v == iroh_validate_ticket_body(Str(t)).cbs[1].arg
        IN /\ t # <<>>
           /\ v.is_valid
           /\ \A up \in BOOLEAN, ip \in BOOLEAN :
                 v.node_id = Str(<<info(last.handle, up, ip).node_id>>)

\* a ticket of a blob this node has put was given to iroh_validate_ticket
C23_Witness ==
    /\ last.op = "iroh_validate_ticket"
    /\ Len(cbs) = 1
    /\ cbs[1].arg.is_valid
    /\ \E h \in LiveNodes :
          /\ cbs[1].arg.node_id = Str(<<NodeIdOf(h)>>)
          /\ Preimage(ParseBlobTicket(last.strs[1].text).hash) \in nodes[h].blobs


\* The step is a set / a delete with these arguments that the engine accepted
SetOk(d, a, k, v) ==
    /\ CallOf("iroh_doc_set", d, iroh_doc_set_body(d, a, k, v, "ok"))
    /\ iroh_doc_set_body(d, a, k, v, "ok").cbs[1].fn = "on_success"
    /\ iroh_doc_set(d, a, k, v, "ok")
DelOk(d, a, k) ==
    /\ CallOf("iroh_doc_del", d, iroh_doc_del_body(d, a, k, "ok"))
    /\ iroh_doc_del_body(d, a, k, "ok").cbs[1].fn = "on_success"
    /\ iroh_doc_del(d, a, k, "ok")
\* The entries of document d that are not the empty entries deletes leave
CurrentEntries(d) ==
    {e \in nodes[docs[d].node_handle].entries : e.ns = docs[d].ns /\ e.len > 0}

\* What a get of key k and a read of the content of the entry it reports
\* invoke (the read of no entry is no call)
ReadBack(d, k) ==
    LET g == iroh_doc_get_body(d, k, "ok").cbs[1] IN
    [get |-> g,
     read |-> IF g.fn = "on_success" /\ g.owned # <<>>
              THEN iroh_doc_read_content_body(docs[d].node_handle,
                                              Str(g.arg.content_hash), "ok").cbs
              ELSE <<>>]

\* C24: once a set of value v at key k has succeeded, a get of k on that
\* document succeeds with a non-null entry whose content_hash is the hash
\* string the set returned and, given to iroh_doc_read_content on the same
\* node, yields the bytes of v.
C24_DocRoundTrip ==
    [][\A d \in OwnDocs, a \in KvSecrets, k \in KvKeys, v \in KvValues :
          SetOk(d, a, k, v) =>
              LET r == (ReadBack(d, k))' IN
              /\ r.get.fn = "on_success"
              /\ r.get.owned # <<>>
              /\ r.get.arg.content_hash = cbs'[1].arg
              /\ r.read = <<Cb("on_success", CopyBytes(v), <<"bytes">>)>>]_vars

\* C25: a prefix query invokes on_entry once for each current entry of the
\* document whose key starts with the prefix, for no other entry, and then
\* on_complete.
C25_PrefixQueryComplete ==
    \A d \in OwnDocs, p \in KvKeys :
        LET out == iroh_doc_get_many_body(d, p, "ok").cbs
            n == Len(out) - 1
        IN /\ n >= 0
           /\ out[n + 1].fn = "on_complete"
           /\ \A i \in 1..n :
                 /\ out[i].fn = "on_entry"
                 /\ \E e \in CurrentEntries(d) :
                       /\ HasPrefix(e.key, CopyBytes(p))
                       /\ out[i].arg = convert_entry_to_ffi(e).entry
           /\ \A e \in CurrentEntries(d) :
                 HasPrefix(e.key, CopyBytes(p)) =>
                     Cardinality({i \in 1..n : out[i].arg = convert_entry_to_ffi(e).entry}) = 1

\* of three current entries the query has reported the two under its prefix
C25_Witness ==
    /\ last.op = "iroh_doc_get_many"
    /\ Len(cbs) = 3
    /\ cbs[1].fn = "on_entry" /\ cbs[2].fn = "on_entry" /\ cbs[3].fn = "on_complete"
    /\ Cardinality(CurrentEntries(last.handle)) = 3

\* C26: once a delete of key k has succeeded with a positive count, a get of
\* k on that document reports success with a null entry, whatever sets, by
\* whatever authors, came before the delete.
C26_DeleteThenGet ==
    [][\A d \in OwnDocs, a \in KvSecrets, k \in KvKeys :
          (DelOk(d, a, k) /\ cbs'[1].arg > 0) =>
              LET g == (iroh_doc_get_body(d, k, "ok").cbs[1])' IN
              g.fn = "on_success" /\ g.owned = <<>>]_vars

\* C27: get is an exact-key lookup of the latest entry: with no current entry
\* at the key it reports null, otherwise an entry with that key whose
\* timestamp no current entry at the key exceeds.
C27_GetLatestExact ==
    \A d \in OwnDocs, k \in KvKeys :
        LET g == iroh_doc_get_body(d, k, "ok").cbs[1]
            same == {e \in CurrentEntries(d) : e.key = CopyBytes(k)}
        IN /\ g.fn = "on_success"
           /\ (g.owned = <<>>) = (same = {})
           /\ same # {} =>
                 /\ g.arg.key = CopyBytes(k)
                 /\ \A e \in same : e.ts <= g.arg.timestamp


\* The operations that destroy a document or node handle
DestroyOps == {"iroh_doc_close", "iroh_node_destroy", "iroh_node_close"}
\* How many times the task of subscription s has invoked on_complete
Completions(w) == Cardinality({i \in 1..Len(w.log) : w.log[i].fn = "on_complete"})

CreateOk(c) ==
    /\ CallOf("iroh_node_create", NULL, iroh_node_create_body(c, "ok"))
    /\ iroh_node_create_body(c, "ok").cbs[1].fn = "on_success"
    /\ iroh_node_create(c, "ok")
\* What the node says of its docs subsystem
DocsFlags(h) == <<is_docs_enabled(h), docs_is_some(h), gossip_is_some(h)>>

\* C29: a node comes to life only by a successful create, and then
\* is_docs_enabled(), docs().is_some() and the presence of gossip all equal
\* the docs_enabled of the configuration it was created with; none of them
\* changes while the node lives.
C29_DocsPresence ==
    [][\A h \in NodeHandles :
          /\ (nodes[h].status = "live" /\ nodes'[h].status = "live") =>
                (DocsFlags(h))' = DocsFlags(h)
          /\ (nodes[h].status # "live" /\ nodes'[h].status = "live") =>
                \E c \in StoreConfigs :
                    /\ CreateOk(c)
                    /\ (DocsFlags(h))' = <<c.docs_enabled, c.docs_enabled, c.docs_enabled>>]_vars

\* a node created with docs, later in its life: a document was made on it
C29_Witness ==
    /\ last.op = "iroh_doc_create"
    /\ Len(cbs) = 1
    /\ cbs[1].fn = "on_success"
    /\ DocsFlags(last.handle) = <<TRUE, TRUE, TRUE>>


\* C30: iroh_blob_ticket_create reports success, a ticket naming this node as
\* the provider, only for a hash whose blob is in the node's store.
C30_TicketForLocalContent ==
    (/\ last.op = "iroh_blob_ticket_create"
     /\ Len(cbs) = 1
     /\ cbs[1].fn = "on_success")
    => /\ ParseBlobTicket(cbs[1].arg).node_id = NodeIdOf(last.handle)
       /\ Preimage(ParseHash(last.strs[1].text).hash) \in nodes[last.handle].blobs


\* A handle that is allocated: x is <<"node" / "doc" / "sub", handle>>
LiveHandle(x) ==
    IF x[1] = "node" THEN x[2] \in NodeHandles /\ nodes[x[2]].status = "live"
    ELSE IF x[1] = "doc" THEN x[2] \in DocHandles /\ docs[x[2]].status = "live"
    ELSE x[2] \in SubHandles /\ subs[x[2]].handle = "live"
\* The step is the task of subscription s running
TaskRan(s) ==
    /\ last' = last
    /\ subs'[s].pc # subs[s].pc \/ subs'[s].log # subs[s].log

\* C31: with a caller that passes no consumed handle and keeps no document
\* handle past the destruction of its node, whatever an exported operation or
\* a subscription task dereferences is a handle that is still allocated.
C31_NoFreedHandleDeref ==
    [][/\ IsCall => \A x \in Derefs(last'.op, last'.handle) : LiveHandle(x)
       /\ \A s \in SubHandles :
             TaskRan(s) => \A x \in TaskDerefs(s) : LiveHandle(x)]_vars

\* a document operation has gone through the back-reference to the node
\* while the task of a subscription delivers events of a document that was
\* closed under it
C31_Witness ==
    /\ last.op = "iroh_doc_share"
    /\ Len(cbs) = 1
    /\ cbs[1].fn = "on_success"
    /\ \E s \in SubHandles, d \in DocHandles :
          /\ docs[d].status = "freed"
          /\ docs[d].ns = subs[s].ns
          /\ subs[s].pc = "looping"
          /\ \E i \in 1..Len(subs[s].log) : subs[s].log[i].fn = "on_event"


\* The call leaves every node as alive as it was
KeepsNodes(out) == \A h \in NodeHandles : out.nodes[h].status = nodes[h].status

\* C32: iroh_doc_close of a document frees that document's wrapper and
\* nothing else: the node, every other document handle and every subscription
\* are as they were; and no operation on a document handle, whatever its
\* arguments and outcome, frees or shuts down a node.
C32_DocCloseFreesWrapperOnly ==
    /\ [][(IsCall /\ last'.op = "iroh_doc_close" /\ last'.handle # NULL) =>
             /\ docs[last'.handle].status = "live"
             /\ docs'[last'.handle].status = "freed"
             /\ \A d \in DocHandles \ {last'.handle} : docs'[d] = docs[d]
             /\ nodes' = nodes
             /\ subs' = subs]_vars
    /\ [](\A d \in OwnDocs :
             /\ \A a \in KvSecrets, k \in KvKeys, v \in KvValues, res \in Results :
                   KeepsNodes(iroh_doc_set_body(d, a, k, v, res))
             /\ \A a \in KvSecrets, k \in KvKeys, res \in Results :
                   KeepsNodes(iroh_doc_del_body(d, a, k, res))
             /\ \A k \in KvKeys, res \in Results :
                   KeepsNodes(iroh_doc_get_body(d, k, res))
             /\ \A k \in KvKeys, res \in StreamResults :
                   KeepsNodes(iroh_doc_get_many_body(d, k, res)))
    /\ [][(IsCall /\ last'.op \in DocHandleOps) =>
             \A h \in NodeHandles : nodes'[h].status = nodes[h].status]_vars

\* a document was closed next to another document of the node and under a
\* running subscription: all three are still there
C32_Witness ==
    /\ last.op = "iroh_doc_close"
    /\ last.handle # NULL
    /\ \E d \in LiveDocs :
          /\ d # last.handle
          /\ docs[d].node_handle = docs[last.handle].node_handle
          /\ nodes[docs[d].node_handle].status = "live"
    /\ \E s \in LiveSubs : subs[s].pc = "looping" /\ subs[s].ns = docs[last.handle].ns


\* The shape "on_progress zero or more times, then one terminal callback"
ProgressThenTerminal(c) ==
    /\ Len(c) >= 1
    /\ c[Len(c)].fn \in {"on_success", "on_failure"}
    /\ \A i \in 1..(Len(c) - 1) : c[i].fn = "on_progress"

\* The stream holds one of the two error items
HasError(items) ==
    \E i \in 1..Len(items) : items[i].kind \in {"Error", "DownloadError"}

\* The arguments iroh_get_with_progress rejects before any download starts
Rejected(h, t) ==
    h = NULL \/ t.null \/ ~t.utf8 \/ ~ParseBlobTicket(t.text).ok

\* C33: iroh_get_with_progress invokes on_progress zero or more times and
\* then exactly one of on_success / on_failure, nothing after it; a null
\* handle, a null or non-UTF-8 ticket or an unparsable ticket gives on_failure
\* alone; an error item in the download stream gives on_failure, never
\* on_success, whatever progress came before it.
C33_ProgressThenOneTerminal ==
    /\ last.op = "iroh_get_with_progress" => ProgressThenTerminal(cbs)
    /\ \A h \in NodeArgs, t \in ProgressTickets, start \in Results,
          items \in DownloadStreams, read \in Results :
          LET c == iroh_get_with_progress_body(h, t, start, items, read).cbs IN
          /\ ProgressThenTerminal(c)
          /\ Rejected(h, t) => Len(c) = 1 /\ c[1].fn = "on_failure"
          /\ (~Rejected(h, t) /\ start = "ok" /\ HasError(items))
                => c[Len(c)].fn = "on_failure"

\* a download that reported progress twice and then failed on an error item
C33_Witness ==
    /\ last.op = "iroh_get_with_progress"
    /\ last.native
    /\ Len(cbs) = 3
    /\ cbs[1].fn = "on_progress"
    /\ cbs[2].fn = "on_progress"
    /\ cbs[3].fn = "on_failure"
    /\ cbs[3].arg = "Download error"


\* The items the download loop reads: those before the first error item
BeforeError(items) ==
    LET errs == {i \in 1..Len(items) : items[i].kind \in {"Error", "DownloadError"}}
        stop == IF errs = {} THEN Len(items) + 1
                ELSE CHOOSE i \in errs : \A j \in errs : i <= j
    IN SubSeq(items, 1, stop - 1)
IsProgressItem(item) == item.kind = "Progress"
IsOnProgress(c) == c.fn = "on_progress"

\* C39: every on_progress of iroh_get_with_progress carries total = 0, and
\* the downloaded values are the byte counts of the progress items of the
\* download stream, one invocation per item, in the order of the stream.
C39_ProgressPayload ==
    /\ last.op = "iroh_get_with_progress"
          => \A i \in 1..Len(cbs) : cbs[i].fn = "on_progress" => cbs[i].arg.total = 0
    /\ \A h \in NodeArgs, t \in ProgressTickets, start \in Results,
          items \in DownloadStreams, read \in Results :
          LET ps == SelectSeq(iroh_get_with_progress_body(h, t, start, items, read).cbs,
                              IsOnProgress)
              evs == IF Rejected(h, t) \/ start = "err" THEN <<>>
                     ELSE SelectSeq(BeforeError(items), IsProgressItem)
          IN /\ Len(ps) = Len(evs)
             /\ \A i \in 1..Len(ps) :
                   /\ ps[i].arg.total = 0
                   /\ ps[i].arg.downloaded = evs[i].bytes

\* a fetch that reported two progress items with different byte counts and
\* then delivered the blob
C39_Witness ==
    /\ last.op = "iroh_get_with_progress"
    /\ Len(cbs) = 3
    /\ cbs[1].fn = "on_progress"
    /\ cbs[1].arg = [downloaded |-> 1, total |-> 0]
    /\ cbs[2].fn = "on_progress"
    /\ cbs[2].arg = [downloaded |-> 2, total |-> 0]
    /\ cbs[3].fn = "on_success"


\* The shape "on_entry zero or more times, then one of on_complete / on_failure"
EntriesThenTerminal(c) ==
    /\ Len(c) >= 1
    /\ c[Len(c)].fn \in {"on_complete", "on_failure"}
    /\ \A i \in 1..(Len(c) - 1) : c[i].fn = "on_entry"

\* C34: iroh_doc_get_many invokes on_entry zero or more times and then
\* exactly one of on_complete / on_failure; when the entry stream fails after
\* entries were delivered, those entries are followed by on_failure alone.
C34_EntriesThenOneTerminal ==
    /\ last.op = "iroh_doc_get_many" => EntriesThenTerminal(cbs)
    /\ \A d \in OwnDocs, k \in OwnKeys :
          LET cut == iroh_doc_get_many_body(d, k, "cut").cbs
              all == iroh_doc_get_many_body(d, k, "ok").cbs
          IN /\ EntriesThenTerminal(cut)
             /\ EntriesThenTerminal(all)
             /\ cut[Len(cut)].fn = "on_failure"
             /\ all[Len(all)].fn = "on_complete"
             /\ \A i \in 1..(Len(cut) - 1) : cut[i] = all[i]

\* a query whose stream delivered an entry and then failed
C34_Witness ==
    /\ last.op = "iroh_doc_get_many"
    /\ last.native
    /\ Len(cbs) = 2
    /\ cbs[1].fn = "on_entry"
    /\ cbs[2].fn = "on_failure"


\* The task of subscription w has made its terminal callback and returned
Terminated(w) ==
    /\ w.pc = "done"
    /\ SelectSeq(w.log, IsCallback) # <<>>
    /\ SelectSeq(w.log, IsCallback)[Len(SelectSeq(w.log, IsCallback))].fn \in {"on_complete", "on_failure"}

\* C35: iroh_doc_subscribe with a non-null document handle returns a non-null
\* subscription handle; the handle stays allocated, through the task's
\* terminal callback and after it, until iroh_subscription_cancel is called
\* on it; and iroh_subscription_cancel on a subscription whose task has
\* already terminated invokes no callback and only releases the handle.
C35_HandleOutlivesTask ==
    [][/\ (IsCall /\ last'.op = "iroh_doc_subscribe" /\ last'.handle # NULL)
             => /\ last'.ret \in SubHandles
                /\ subs[last'.ret].handle = "none"
                /\ subs'[last'.ret].handle = "live"
       /\ \A s \in SubHandles :
             /\ (subs[s].handle = "live" /\ subs'[s].handle # "live")
                   => /\ IsCall
                      /\ last'.op = "iroh_subscription_cancel"
                      /\ last'.handle = s
             /\ (/\ IsCall
                 /\ last'.op = "iroh_subscription_cancel"
                 /\ last'.handle = s
                 /\ subs[s].handle = "live"
                 /\ Terminated(subs[s]))
                   => /\ cbs' = <<>>
                      /\ subs'[s] = [subs[s] EXCEPT
                                        !.handle = "freed",
                                        !.cancel_tx = "none",
                                        !.signals = subs'[s].signals,
                                        !.log = Append(@, [fn |-> "cancel", seq |-> 0])]
                      /\ \A g \in SubHandles \ {s} : subs'[g] = subs[g]
                      /\ heap' = heap
                      /\ nodes' = nodes
                      /\ docs' = docs]_vars

\* a subscription whose event source ended (on_complete was invoked), whose
\* handle was still allocated then, and which was cancelled afterwards
C35_Witness ==
    /\ last.op = "iroh_subscription_cancel"
    /\ last.handle # NULL
    /\ LET w == subs[last.handle] IN
        /\ w.handle = "freed"
        /\ w.uaf = 0
        /\ w.pc = "done"
        /\ w.chan = "empty"
        /\ Len(w.log) >= 2
        /\ w.log[Len(w.log)].fn = "cancel"
        /\ w.log[Len(w.log) - 1].fn = "on_complete"


\* Subscription s was made from a document with the namespace and node of
\* document handle d
SubscribedTo(s, d) ==
    /\ subs[s].handle # "none"
    /\ subs[s].ns = docs[d].ns
    /\ subs[s].node = docs[d].node_handle

\* C36: the task of a subscription works on its own clone of the document:
\* no step of it dereferences a document handle or a node handle, live or
\* not; iroh_doc_close on the document leaves the task, its stream and its
\* callbacks as they were; and an active task stops, or loses an item of its
\* stream, only by making a callback of its own or by the shutdown of its
\* node, never by the closing of a document.
C36_TaskOwnsItsDocument ==
    [][\A s \in SubHandles :
          /\ TaskRan(s) => \A x \in TaskDerefs(s) : x[1] \notin {"doc", "node"}
          /\ (/\ IsCall
              /\ last'.op = "iroh_doc_close"
              /\ last'.handle # NULL
              /\ SubscribedTo(s, last'.handle))
                => subs'[s] = subs[s]
          /\ (/\ subs[s].pc = "looping"
              /\ \/ subs'[s].pc # "looping"
                 \/ Len(subs'[s].stream) < Len(subs[s].stream))
                => \/ Len(SelectSeq(subs'[s].log, IsCallback))
                          = Len(SelectSeq(subs[s].log, IsCallback)) + 1
                   \/ /\ IsCall
                      /\ last'.op \in {"iroh_node_destroy", "iroh_node_close"}
                      /\ last'.handle = subs[s].node]_vars

\* the document was closed while its subscription is in its loop, and an
\* event emitted for it is waiting to be delivered with no handle of the
\* document left
C36_Witness ==
    /\ last.op = "iroh_doc_close"
    /\ last.handle # NULL
    /\ docs[last.handle].status = "freed"
    /\ \A d \in LiveDocs : docs[d].ns # docs[last.handle].ns
    /\ \E s \in LiveSubs :
          /\ SubscribedTo(s, last.handle)
          /\ subs[s].pc = "looping"
          /\ subs[s].stream # <<>>
          /\ Head(subs[s].stream).kind = "event"


\* What iroh_node_create does with a usable storage path and these relay
\* settings
CreateWith(re, url, de, res) ==
    iroh_node_create_body([storage_path |-> Str(<<"dir">>), relay_enabled |-> re,
                           custom_relay_url |-> url, docs_enabled |-> de], res)
\* The custom relay URLs that are text: absent, or valid UTF-8
TextUrls == {u \in RelayArgs : u.null \/ u.utf8}
BadUrls == {u \in TextUrls : ~u.null /\ ~ParseRelayUrl(u.text)}

\* C38: iroh_node_create looks at the custom relay URL only when relays are
\* enabled. With relay_enabled = false a URL that does not parse changes
\* nothing: creation succeeds exactly as without a URL and relays are
\* disabled. With relay_enabled = true a URL that does not parse makes
\* creation fail through on_failure with no node made, and no URL selects the
\* default relays.
C38_RelayUrlOnlyWhenEnabled ==
    (\E h \in NodeHandles : nodes[h].status = "none") =>
        \A de \in BOOLEAN :
            /\ \A u \in TextUrls :
                  LET off == CreateWith(FALSE, u, de, "ok") IN
                  /\ off = CreateWith(FALSE, NullStr, de, "ok")
                  /\ Len(off.cbs) = 1
                  /\ off.cbs[1].fn = "on_success"
                  /\ off.nodes[off.cbs[1].arg].status = "live"
                  /\ off.nodes[off.cbs[1].arg].relay = "disabled"
            /\ \A u \in BadUrls, res \in Results :
                  LET on == CreateWith(TRUE, u, de, res) IN
                  /\ Len(on.cbs) = 1
                  /\ on.cbs[1].fn = "on_failure"
                  /\ on.nodes = nodes
            /\ LET dflt == CreateWith(TRUE, NullStr, de, "ok") IN
                  /\ Len(dflt.cbs) = 1
                  /\ dflt.cbs[1].fn = "on_success"
                  /\ dflt.nodes[dflt.cbs[1].arg].relay = "default"

\* a creation with relays enabled was refused for its relay URL, and no node
\* exists
C38_Witness ==
    /\ last.op = "iroh_node_create"
    /\ last.native
    /\ Len(cbs) = 1
    /\ cbs[1].fn = "on_failure"
    /\ cbs[1].arg = "Invalid relay URL"
    /\ \A h \in NodeHandles : nodes[h].status = "none"


\* Callback i of a call was invoked inside the node's runtime: a blocking
\* operation issued from it would call block_on nested in that runtime
Nested(out, i) == i <= out.inrt
\* The callbacks invoked inside the runtime are exactly the item callbacks
\* `item`, and one callback, the terminal, follows block_on's return
ItemsInsideTerminalAfter(out, item) ==
    /\ Len(out.cbs) >= 1
    /\ \A i \in 1..Len(out.cbs) : Nested(out, i) <=> out.cbs[i].fn = item
    /\ ~Nested(out, Len(out.cbs))
    /\ out.cbs[Len(out.cbs)].fn \in {"on_success", "on_complete", "on_failure"}
\* Download streams with no item, with progress, and with an error after it
SomeStreams ==
    {<<>>, <<ProgressItem(1)>>, <<ProgressItem(1), ErrorItem>>,
     <<ProgressItem(1), PartComplete, ProgressItem(2)>>}

=============================================================================
